---- MODULE Spec2Model ----
(***************************************************************************)
(* Stockman: the page script (src/frontend/js/app.js) and the service      *)
(* worker (src/unnamed/part_000) as state machines.                        *)
(*                                                                         *)
(* Text is a sequence of tokens (a token is one character or one run of    *)
(* non-blank characters); " " is the blank token.  JavaScript values are   *)
(* tagged records: [t |-> "undef"], [t |-> "null"], [t |-> "str", v |-> s],*)
(* [t |-> "num", n |-> k], [t |-> "obj", f |-> fields].                    *)
(*                                                                         *)
(* Every async function is cut at its awaits: one action per synchronous   *)
(* run of the event loop.                                                  *)
(***************************************************************************)
EXTENDS Integers, Sequences, FiniteSets, TLC

VARIABLES
    \* ---- page: chat (app.js) ----
    messageInput,     \* elements.messageInput.value
    messages,         \* children of elements.messages, in order
    typingHidden,     \* typingIndicator.classList contains 'hidden'
    send,             \* the sendMessage calls: position and what each holds
    chatRequests,     \* POST /api/chat requests issued, in order
    \* ---- service worker: caches (part_000) ----
    cacheStorage,     \* CacheStorage: the caches in creation order, each [name, entries]
    serverVer,        \* the version of the content the network serves now
    installPc,        \* the install event's position
    activate,         \* the activate event: position, the names caches.keys() gave
    claimed,          \* self.clients.claim() was called
    deleteCalls,      \* caches.delete(name) calls, per name
    fetchEv,          \* the fetch events: request, position, what the page got
    cacheLog,         \* the cache reads and writes the fetch handler made
    \* ---- service worker: notifications (part_000) ----
    shown,            \* registration.showNotification calls, in order
    pushes,           \* push events dispatched
    clients,          \* the window clients of the origin, in matchAll order
    click,            \* the notificationclick events: position and what each did
    \* ---- page: voice (app.js) ----
    isRecording,      \* let isRecording
    mediaRecorder,    \* let mediaRecorder: 0 for null, else the recorder of that startVoice call
    audioChunks,      \* let audioChunks
    currentVoiceMode, \* let currentVoiceMode
    voiceModalHidden, \* voiceModal.classList contains 'hidden'
    voiceStatus,      \* voiceStatus.textContent
    voice,            \* the startVoice calls: stream, recorder, position of the continuation
    transcribeRequests, \* POST /api/voice/transcribe requests issued, in order
    synthRequests,    \* POST /api/voice/synthesize requests issued, in order
    spoken,           \* audio played and utterances spoken, in order
    \* ---- page: settings panel (app.js) ----
    stored,           \* the backend's portfolio and watchlist, each a list of tickers
    rendered,         \* portfolioList and watchlistList: what each shows
    tickerField,      \* portfolioTicker.value and watchlistTicker.value
    panel,            \* the openSettings, add and remove calls: request, position
    \* ---- page: ticker (app.js) ----
    timers,           \* setInterval timers armed
    refresh,          \* the loadTicker runs: position, what each read and fetched
    tickerContent,    \* what #ticker-content shows
    \* ---- page: morning wisdom (app.js) ----
    clock,            \* the local time: a position in Moments
    permission,       \* Notification.permission
    wisdomDate,       \* localStorage 'stockman_wisdom_date', shared by the pages of the origin
    wisdom,           \* the checkMorningWisdom calls: what each read, position, how it ended
    wisdomRequests,   \* GET /api/morning-wisdom requests issued, in order
    notices           \* new Notification(...) calls, in order

chatVars == <<messageInput, messages, typingHidden, send, chatRequests>>
cacheVars == <<cacheStorage, serverVer, installPc, activate, claimed, deleteCalls, fetchEv, cacheLog>>

notifyVars == <<shown, pushes, clients, click>>
recorderVars == <<isRecording, mediaRecorder, audioChunks, currentVoiceMode>>
voiceVars == <<recorderVars, voiceModalHidden, voiceStatus, voice, transcribeRequests,
               synthRequests, spoken>>
workerVars == <<cacheVars, notifyVars>>
panelVars == <<stored, rendered, tickerField, panel>>
tickerVars == <<timers, refresh, tickerContent>>
wisdomVars == <<clock, permission, wisdomDate, wisdom, wisdomRequests, notices>>
restVars == <<workerVars, panelVars, tickerVars, wisdomVars>>

\* what the handlers of each part leave alone
notChatVars == <<restVars, voiceVars>>
notCacheVars == <<chatVars, notifyVars, voiceVars, panelVars, tickerVars, wisdomVars>>
notNotifyVars == <<chatVars, cacheVars, voiceVars, panelVars, tickerVars, wisdomVars>>
notPanelVars == <<chatVars, workerVars, voiceVars, tickerVars, wisdomVars>>
notTickerVars == <<chatVars, workerVars, voiceVars, rendered, tickerField, panel, wisdomVars>>
notWisdomVars == <<chatVars, workerVars, voiceVars, panelVars, tickerVars>>

vars == <<chatVars, cacheVars, notifyVars, voiceVars, panelVars, tickerVars, wisdomVars>>

(***************************************************************************)
(* Bounds                                                                  *)
(***************************************************************************)
MaxSends == 2         \* sendMessage calls per behaviour
MaxFetch == 2         \* fetch events per behaviour
MaxVer == 2           \* versions of the content the server goes through
MaxPush == 2          \* push events per behaviour
MaxClicks == 2        \* notification clicks per behaviour
MaxVoice == 2         \* startVoice calls per behaviour
MaxTalks == 1         \* startVoice calls per behaviour of SpecTalk
MaxPanel == 2         \* loads, adds and removes of the settings panel per behaviour
MaxBusy == 1          \* calls under way when the user starts another, in SpecPanel
MaxRefresh == 3       \* loadTicker runs per behaviour
MaxShown == 1         \* addMessage calls per behaviour of SpecRender
MaxLen == 3           \* tokens of a text given to addMessage in SpecRender
MaxWisdom == 2        \* checkMorningWisdom calls per behaviour

(***************************************************************************)
(* JavaScript values                                                       *)
(***************************************************************************)
Undef == [t |-> "undef"]
Null == [t |-> "null"]
Str(s) == [t |-> "str", v |-> s]
Num(k) == [t |-> "num", n |-> k]
Obj(fields) == [t |-> "obj", f |-> fields]

\* ToBoolean: `if (x)`, `!x`, `x || y`
Truthy(x) ==
    CASE x.t = "undef" -> FALSE
      [] x.t = "null" -> FALSE
      [] x.t = "str" -> x.v # <<>>
      [] x.t = "num" -> x.n # 0
      [] OTHER -> TRUE

\* x.k on an object value: undefined when the key is absent
Get(x, k) == IF k \in DOMAIN x.f THEN x.f[k] ELSE Undef

\* x.k throws a TypeError on null and undefined
CanRead(x) == x.t \notin {"undef", "null"}

(***************************************************************************)
(* Text                                                                    *)
(***************************************************************************)
RECURSIVE TrimStart(_)
TrimStart(s) ==
    IF s # <<>> /\ Head(s) = " " THEN TrimStart(Tail(s)) ELSE s

RECURSIVE TrimEnd(_)
TrimEnd(s) ==
    IF s # <<>> /\ s[Len(s)] = " " THEN TrimEnd(SubSeq(s, 1, Len(s) - 1)) ELSE s

\* String.prototype.trim
Trim(s) == TrimEnd(TrimStart(s))

\* what the user may have typed into the message box
Inputs == { <<>>, <<" ">>, <<" ", "hi", " ">>, <<"yo">> }

ChatApology == <<"Sorry, I encountered an error. Please try again.">>

(***************************************************************************)
(* HTTP responses as the page sees them: the status, whether the body      *)
(* parses as JSON, and the parsed value.                                   *)
(***************************************************************************)
ChatBodies ==
    { [parses |-> FALSE, json |-> Undef],                           \* not JSON
      [parses |-> TRUE, json |-> Null],                             \* null
      [parses |-> TRUE, json |-> Obj([error |-> Str(<<"x">>)])],    \* no reply field
      [parses |-> TRUE, json |-> Obj([reply |-> Str(<<>>)])],       \* reply: ""
      [parses |-> TRUE, json |-> Obj([reply |-> Str(<<"Buy", " ", "low">>)])],     \* reply: text
      [parses |-> TRUE, json |-> Obj([reply |-> Num(7)])] }         \* reply: 7

\* response.ok
OkWhatever(status) == TRUE

Ok(status) == status >= 200 /\ status <= 299

ChatResponses ==
    { [status |-> 200, body |-> b] : b \in ChatBodies }
      \cup { [status |-> 500, body |-> b] :
                b \in { c \in ChatBodies : ~c.parses \/ (CanRead(c.json) /\ Get(c.json, "reply") = Undef) } }

NoResponse == [status |-> 0, body |-> [parses |-> FALSE, json |-> Undef]]

(***************************************************************************)
(* Chat                                                                    *)
(***************************************************************************)
SendIds == 1 .. MaxSends

\* showTyping
ShowTypingHidden == FALSE

\* hideTyping
HideTypingHidden == TRUE

\* addMessage throws before it appends when an assistant's content is not a
\* string: formatMessage calls content.replace
AddMessageThrows(role, content) == role = "assistant" /\ content.t # "str"

\* text.replace(/c/g, with), c one character
RECURSIVE ReplaceAll(_, _, _)
ReplaceAll(text, c, with) ==
    IF text = <<>> THEN <<>>
    ELSE (IF Head(text) = c THEN with ELSE <<Head(text)>>) \o ReplaceAll(Tail(text), c, with)

\* .replace(/&/g, '&amp;').replace(/</g, '&lt;').replace(/>/g, '&gt;')
EscapeHtml(text) ==
    ReplaceAll(ReplaceAll(ReplaceAll(text, "&", <<"&", "amp;">>), "<", <<"&", "lt;">>),
               ">", <<"&", "gt;">>)

\* .replace(/cc(.*?)cc/g, '<strong>$1</strong>'), c being * or _: from the
\* first cc to the nearest cc after it, then on from there
RECURSIVE Strong(_, _)
Strong(text, c) ==
    LET pairs == { i \in 1 .. Len(text) - 1 : text[i] = c /\ text[i + 1] = c } IN
    IF pairs = {} THEN text
    ELSE LET i == CHOOSE x \in pairs : \A y \in pairs : x <= y
             closing == { j \in pairs : j >= i + 2 }
         IN IF closing = {} THEN text
            ELSE LET j == CHOOSE x \in closing : \A y \in closing : x <= y IN
                 SubSeq(text, 1, i - 1) \o <<"<strong>">> \o SubSeq(text, i + 2, j - 1)
                    \o <<"</strong>">> \o Strong(SubSeq(text, j + 2, Len(text)), c)

\* .replace(/c([^c]+)c/g, '<em>$1</em>'), c being * or _: from a c to the next
\* c, with something between them
RECURSIVE Em(_, _)
Em(text, c) ==
    LET marks == { i \in 1 .. Len(text) : text[i] = c } IN
    IF marks = {} THEN text
    ELSE LET i == CHOOSE x \in marks : \A y \in marks : x <= y
             later == { j \in marks : j > i }
         IN IF later = {} THEN text
            ELSE LET j == CHOOSE x \in later : \A y \in later : x <= y IN
                 IF j = i + 1
                   THEN SubSeq(text, 1, i) \o Em(SubSeq(text, i + 1, Len(text)), c)
                   ELSE SubSeq(text, 1, i - 1) \o <<"<em>">> \o SubSeq(text, i + 1, j - 1)
                          \o <<"</em>">> \o Em(SubSeq(text, j + 1, Len(text)), c)

\* formatMessage, for a text of one line with no '-', no bullet and no digit:
\* the list and line-break replacements find nothing in it
FormatMessage(text) ==
    LET html == Em(Em(Strong(Strong(EscapeHtml(text), "*"), "_"), "*"), "_") IN
    IF html # <<>> /\ html[1] \in {"<", "<strong>", "<em>"}
      THEN html
      ELSE <<"<p>">> \o html \o <<"</p>">>

\* the message element addMessage makes: its message-content is formatMessage
\* of an assistant's text, and a user's text escaped inside a paragraph
Bubble(role, content, by) ==
    [role |-> role, content |-> content,
     html |-> IF role = "assistant" THEN FormatMessage(content)
                                    ELSE <<"<p>">> \o EscapeHtml(content) \o <<"</p>">>,
     by |-> by]

\* addMessage: the list with the message appended; `by` tags the call that appended
AddMessageOnTop(list, role, content, by) == <<Bubble(role, content.v, by)>> \o list

AddMessageTwice(list, role, content, by) ==
    Append(Append(list, Bubble(role, content.v, by)), Bubble(role, content.v, by))

AddMessage(list, role, content, by) == Append(list, Bubble(role, content.v, by))

\* "**Buy** AAPL now"
BuyNow == <<"*", "*", "Buy", "*", "*", " ", "AAPL", " ", "now">>

\* the texts addMessage is called with: BuyNow, and the short texts made of
\* markdown marks, HTML-special characters, a word and a blank
Contents ==
    {BuyNow} \cup UNION { [1 .. n -> {"*", "_", "<", ">", "&", "Buy", " "}] : n \in 0 .. MaxLen }

\* addMessage(role, content) is called, by sendMessage or by processVoice
AddMessageCalled ==
    /\ Len(messages) < MaxShown
    /\ \E role \in {"user", "assistant"}, content \in Contents :
          messages' = AddMessage(messages, role, Str(content), <<"call", Len(messages) + 1>>)
    /\ UNCHANGED <<messageInput, typingHidden, send, chatRequests, notChatVars>>

\* the user edits the message box
TypeInput ==
    /\ \E s \in Inputs : messageInput' = s
    /\ messageInput' # messageInput
    /\ UNCHANGED <<messages, typingHidden, send, chatRequests, notChatVars>>

\* sendMessage up to its first await: empty input returns at once
SendMessageReturnsEmpty ==
    /\ \E t \in SendIds :
        /\ send[t].pc = "idle" /\ \A u \in SendIds : u < t => send[u].pc # "idle"
        /\ Trim(messageInput) = <<>>
        /\ send' = [send EXCEPT ![t] = [@ EXCEPT !.pc = "done", !.how = "empty"]]
    /\ UNCHANGED <<messageInput, messages, typingHidden, chatRequests, notChatVars>>

\* elements.messageInput.value = ''
ClearInputLater(value) == value

ClearInput(value) == <<>>

SendMessageStart ==
    /\ \E t \in SendIds :
        LET message == Trim(messageInput) IN
        /\ send[t].pc = "idle" /\ \A u \in SendIds : u < t => send[u].pc # "idle"
        /\ message # <<>>
        /\ messageInput' = ClearInput(messageInput)
        /\ messages' = AddMessage(messages, "user", Str(message), <<"send", t>>)
        /\ typingHidden' = ShowTypingHidden
        /\ chatRequests' = Append(chatRequests,
                                  [message |-> message, is_voice |-> FALSE, by |-> <<"send", t>>])
        /\ send' = [send EXCEPT ![t] = [@ EXCEPT !.pc = "fetch", !.message = message]]
    /\ UNCHANGED notChatVars

\* the catch block of sendMessage
SendMessageCatchKeepsTyping(t, how) ==
    /\ typingHidden' = typingHidden
    /\ messages' = AddMessage(messages, "assistant", Str(ChatApology), <<"send", t>>)
    /\ send' = [send EXCEPT ![t] = [@ EXCEPT !.pc = "done", !.how = how]]

SendMessageCatch(t, how) ==
    /\ typingHidden' = HideTypingHidden
    /\ messages' = AddMessage(messages, "assistant", Str(ChatApology), <<"send", t>>)
    /\ send' = [send EXCEPT ![t] = [@ EXCEPT !.pc = "done", !.how = how]]

\* fetch('/api/chat') rejects
SendMessageFetchRejects ==
    /\ \E t \in SendIds :
        /\ send[t].pc = "fetch"
        /\ SendMessageCatch(t, "fetchRejected")
    /\ UNCHANGED <<messageInput, chatRequests, notChatVars>>

\* fetch('/api/chat') resolves with a response; the call awaits response.json()
SendMessageFetchResolves ==
    /\ \E t \in SendIds, r \in ChatResponses :
        /\ send[t].pc = "fetch"
        /\ send' = [send EXCEPT ![t] = [@ EXCEPT !.pc = "json", !.response = r]]
    /\ UNCHANGED <<messageInput, messages, typingHidden, chatRequests, notChatVars>>

\* response.json() rejects
SendMessageJsonRejects ==
    /\ \E t \in SendIds :
        /\ send[t].pc = "json"
        /\ ~send[t].response.body.parses
        /\ SendMessageCatch(t, "jsonRejected")
    /\ UNCHANGED <<messageInput, chatRequests, notChatVars>>

\* response.json() resolves: hideTyping, then the reply when it is truthy; a
\* throw from data.reply or from addMessage lands in the catch block
SendMessageJsonResolves ==
    /\ \E t \in SendIds :
        LET data == send[t].response.body.json IN
        /\ send[t].pc = "json"
        /\ send[t].response.body.parses
        /\ IF ~CanRead(data)
             THEN SendMessageCatch(t, "threw")
             ELSE IF ~Truthy(Get(data, "reply"))
               THEN /\ typingHidden' = HideTypingHidden
                    /\ send' = [send EXCEPT ![t] = [@ EXCEPT !.pc = "done", !.how = "noReply"]]
                    /\ UNCHANGED messages
               ELSE IF AddMessageThrows("assistant", Get(data, "reply"))
                 THEN SendMessageCatch(t, "threw")
                 ELSE /\ typingHidden' = HideTypingHidden
                      /\ messages' = AddMessage(messages, "assistant", Get(data, "reply"), <<"send", t>>)
                      /\ send' = [send EXCEPT ![t] = [@ EXCEPT !.pc = "done", !.how = "replied"]]
    /\ UNCHANGED <<messageInput, chatRequests, notChatVars>>


(***************************************************************************)
(* Chat: properties                                                        *)
(***************************************************************************)
\* the messages of one role appended by one call
CountBy(role, by) ==
    Cardinality({ i \in DOMAIN messages : messages[i].role = role /\ messages[i].by = by })

RequestsBy(by) ==
    Cardinality({ i \in DOMAIN chatRequests : chatRequests[i].by = by })

\* the chat request of call t is outstanding
SendPending(t) == send[t].pc \in {"fetch", "json"}

\* call t is over and had a non-empty input
SendOver(t) == send[t].pc = "done" /\ send[t].how # "empty"

\* the request of call t failed: fetch rejected, or the body did not parse
SendFailed(t) ==
    SendOver(t) /\ (send[t].how = "fetchRejected" \/ ~send[t].response.body.parses)

\* the request of call t got a body that parsed to an object
SendGotObject(t) ==
    /\ SendOver(t)
    /\ send[t].how # "fetchRejected"
    /\ send[t].response.body.parses
    /\ CanRead(send[t].response.body.json)

\* C1 as the spec states it: one user message before the request resolves, then
\* at most one assistant message: none when the request failed, one when it
\* succeeded with a reply field present.
C1_AsStated ==
    \A t \in SendIds :
        /\ SendPending(t) => CountBy("user", <<"send", t>>) = 1 /\ CountBy("assistant", <<"send", t>>) = 0
        /\ SendOver(t) => CountBy("user", <<"send", t>>) = 1 /\ CountBy("assistant", <<"send", t>>) <= 1
        /\ SendFailed(t) => CountBy("assistant", <<"send", t>>) = 0
        /\ (SendGotObject(t) /\ "reply" \in DOMAIN send[t].response.body.json.f)
              => CountBy("assistant", <<"send", t>>) = 1

\* C1, amended: one sendMessage call with a non-empty trimmed input appends
\* exactly one user message before its request resolves and at most one
\* assistant message after: exactly one (the apology) when the request failed,
\* exactly one when the body is an object with a truthy reply, none when the
\* body is an object whose reply is absent or falsy.
C1_OneUserAtMostOneAssistant ==
    \A t \in SendIds :
        /\ SendPending(t) => CountBy("user", <<"send", t>>) = 1 /\ CountBy("assistant", <<"send", t>>) = 0
        /\ SendOver(t) => CountBy("user", <<"send", t>>) = 1 /\ CountBy("assistant", <<"send", t>>) <= 1
        /\ SendFailed(t) => CountBy("assistant", <<"send", t>>) = 1
        /\ SendGotObject(t) =>
              CountBy("assistant", <<"send", t>>) =
                 (IF Truthy(Get(send[t].response.body.json, "reply")) THEN 1 ELSE 0)

\* two calls are over, one failed and one got a reply, four messages shown
C1_Witness ==
    \E t, u \in SendIds :
        /\ SendFailed(t)
        /\ SendGotObject(u) /\ Truthy(Get(send[u].response.body.json, "reply"))
        /\ Len(messages) = 4

\* C2: when the chat request of a sendMessage call fails (fetch rejects, or the
\* body does not parse), that step hides the typing indicator and appends the
\* apology as the one assistant message of the call, and issues no request;
\* the call has issued one request in all.
C2_FailureApologisesOnce ==
    /\ [](\A t \in SendIds : SendFailed(t) =>
             /\ CountBy("assistant", <<"send", t>>) = 1
             /\ RequestsBy(<<"send", t>>) = 1)
    /\ [][\A t \in SendIds :
             (SendPending(t) /\ send'[t].pc = "done"
                /\ (send'[t].how = "fetchRejected" \/ ~send'[t].response.body.parses))
             => /\ typingHidden' = TRUE
                /\ messages' = Append(messages, Bubble("assistant", ChatApology, <<"send", t>>))
                /\ chatRequests' = chatRequests]_vars

\* a call whose body did not parse is over while another call still waits
C2_Witness ==
    \E t, u \in SendIds :
        /\ SendFailed(t) /\ send[t].how = "jsonRejected"
        /\ send[u].pc = "fetch"

\* C3: every sendMessage call whose round trip ended in a failure (fetch
\* rejected, unparsable body, non-success status, or a body with no reply field)
\* has put an assistant message in the list.
C3_FailureAlwaysShown ==
    \A t \in SendIds :
        (SendOver(t) /\ (\/ SendFailed(t)
                         \/ ~Ok(send[t].response.status)
                         \/ (SendGotObject(t) /\ "reply" \notin DOMAIN send[t].response.body.json.f)))
          => CountBy("assistant", <<"send", t>>) >= 1


(***************************************************************************)
(* Voice: recording                                                        *)
(***************************************************************************)
VoiceIds == 1 .. MaxVoice
unchangedChat == <<messageInput, messages, typingHidden, send, chatRequests>>
unchangedVoiceLogs == <<transcribeRequests, synthRequests, spoken>>

\* startVoice up to `await getUserMedia`
StartVoice ==
    /\ \E v \in VoiceIds, mode \in {"chat", "text"} :
        /\ voice[v].pc = "idle" /\ \A u \in VoiceIds : u < v => voice[u].pc # "idle"
        /\ currentVoiceMode' = mode
        /\ voice' = [voice EXCEPT ![v] = [@ EXCEPT !.pc = "getUserMedia", !.mode = mode]]
    /\ UNCHANGED <<isRecording, mediaRecorder, audioChunks, voiceModalHidden, voiceStatus>>
    /\ UNCHANGED <<unchangedChat, unchangedVoiceLogs, restVars>>

\* getUserMedia rejects: the catch block alerts
GetUserMediaRejects ==
    /\ \E v \in VoiceIds :
        /\ voice[v].pc = "getUserMedia"
        /\ voice' = [voice EXCEPT ![v] = [@ EXCEPT !.pc = "denied"]]
    /\ UNCHANGED <<recorderVars, voiceModalHidden, voiceStatus>>
    /\ UNCHANGED <<unchangedChat, unchangedVoiceLogs, restVars>>

\* getUserMedia resolves with a stream: a recorder is made on it and started
GetUserMediaResolves ==
    /\ \E v \in VoiceIds :
        /\ voice[v].pc = "getUserMedia"
        /\ voice' = [voice EXCEPT ![v] =
              [@ EXCEPT !.pc = "recording", !.stream = "live", !.recorder = "recording"]]
        /\ mediaRecorder' = v
        /\ audioChunks' = <<>>
        /\ isRecording' = TRUE
        /\ voiceModalHidden' = FALSE
        /\ voiceStatus' = IF voice[v].mode = "chat" THEN "Listening... Tap to stop"
                          ELSE "Speak your message... Tap to stop"
    /\ UNCHANGED currentVoiceMode
    /\ UNCHANGED <<unchangedChat, unchangedVoiceLogs, restVars>>

\* `if (mediaRecorder && isRecording)`
StopVoiceActs == mediaRecorder # 0 /\ isRecording

\* stopVoice with a recorder recording: mediaRecorder.stop() makes the
\* recorder inactive and queues its dataavailable and stop events
StopVoice ==
    /\ StopVoiceActs
    /\ voice' = [voice EXCEPT ![mediaRecorder] = [@ EXCEPT !.pc = "stopping", !.recorder = "inactive"]]
    /\ isRecording' = FALSE
    /\ UNCHANGED <<mediaRecorder, audioChunks, currentVoiceMode, voiceModalHidden, voiceStatus>>
    /\ UNCHANGED <<unchangedChat, unchangedVoiceLogs, restVars>>

\* stopVoice otherwise
StopVoiceIdle ==
    /\ ~StopVoiceActs
    /\ UNCHANGED vars

\* stream.getTracks().forEach(track => track.stop()); the modal is hidden
Finished(r) == [r EXCEPT !.pc = "done", !.stream = "ended"]

\* the recorder's events: ondataavailable pushes the recording, then onstop
\* makes the blob of audioChunks and calls processVoice, which shows the typing
\* indicator and posts the blob for transcription
RecorderStops ==
    /\ \E v \in VoiceIds :
        LET chunks == Append(audioChunks, [recorder |-> v]) IN
        /\ voice[v].pc = "stopping"
        /\ audioChunks' = chunks
        /\ voiceStatus' = "Processing..."
        /\ typingHidden' = ShowTypingHidden
        /\ transcribeRequests' = Append(transcribeRequests, [audio |-> chunks, by |-> <<"voice", v>>])
        /\ voice' = [voice EXCEPT ![v] = [@ EXCEPT !.pc = "transcribe", !.blob = chunks]]
    /\ UNCHANGED <<isRecording, mediaRecorder, currentVoiceMode, voiceModalHidden>>
    /\ UNCHANGED <<messageInput, messages, send, chatRequests, synthRequests, spoken, restVars>>

(***************************************************************************)
(* Voice: processVoice and speakResponse                                   *)
(***************************************************************************)
DidntCatch == <<"I didn't catch that. Please try speaking again.">>
VoiceApologyText == <<"Voice service temporarily unavailable. Please type your message.">>
VoiceApologyChat ==
    <<"Sorry, I had trouble with the voice service. Please try again or type your message.">>

TranscribeBodies ==
    { [parses |-> FALSE, json |-> Undef],                           \* not JSON
      [parses |-> TRUE, json |-> Null],                             \* null
      [parses |-> TRUE, json |-> Obj([error |-> Str(<<"x">>)])],    \* no text field
      [parses |-> TRUE, json |-> Obj([text |-> Str(<<>>)])],        \* text: ""
      [parses |-> TRUE, json |-> Obj([text |-> Str(<<" ">>)])],     \* text: " "
      [parses |-> TRUE, json |-> Obj([text |-> Str(<<" ", "sell", " ", "TSLA">>)])],       \* text: words
      [parses |-> TRUE, json |-> Obj([text |-> Num(7)])] }          \* text: 7

TranscribeResponses ==
    { [status |-> 200, body |-> b] : b \in TranscribeBodies }
      \cup { [status |-> 500, body |-> [parses |-> TRUE, json |-> Obj([error |-> Str(<<"x">>)])]] }

SynthBodies ==
    { [parses |-> FALSE, json |-> Undef],                           \* not JSON
      [parses |-> TRUE, json |-> Null],                             \* null
      [parses |-> TRUE, json |-> Obj([error |-> Str(<<"x">>)])],    \* no audio field
      [parses |-> TRUE, json |-> Obj([audio |-> Str(<<>>)])],       \* audio: ""
      [parses |-> TRUE, json |-> Obj([audio |-> Str(<<"ff", "fb">>)])],     \* audio: hex
      [parses |-> TRUE, json |-> Obj([audio |-> Num(7)])] }         \* audio: 7

SynthResponses ==
    { [status |-> 200, body |-> b] : b \in SynthBodies }
      \cup { [status |-> 500, body |-> [parses |-> TRUE, json |-> Obj([error |-> Str(<<"x">>)])]] }

\* what a finished onstop handler leaves alone besides the chat
voiceFrame == <<recorderVars, voiceStatus>>

\* onstop after `await processVoice`: the tracks are stopped, the modal hidden
VoiceEnds(v, how) ==
    /\ voice' = [voice EXCEPT ![v] = Finished([@ EXCEPT !.how = how])]
    /\ voiceModalHidden' = TRUE

\* the catch block of processVoice, and the rest of onstop
ProcessVoiceCatchAsText(v, how) ==
    /\ typingHidden' = HideTypingHidden
    /\ messages' = AddMessage(messages, "assistant", Str(VoiceApologyText), <<"voice", v>>)
    /\ VoiceEnds(v, how)
    /\ UNCHANGED <<messageInput, send, chatRequests, voiceFrame, unchangedVoiceLogs, restVars>>

ProcessVoiceCatch(v, how) ==
    /\ typingHidden' = HideTypingHidden
    /\ messages' = AddMessage(messages, "assistant",
                              Str(IF voice[v].mode = "text" THEN VoiceApologyText ELSE VoiceApologyChat),
                              <<"voice", v>>)
    /\ VoiceEnds(v, how)
    /\ UNCHANGED <<messageInput, send, chatRequests, voiceFrame, unchangedVoiceLogs, restVars>>

\* fetch('/api/voice/transcribe') rejects
TranscribeRejects ==
    \E v \in VoiceIds :
        /\ voice[v].pc = "transcribe"
        /\ ProcessVoiceCatch(v, "transcribeRejected")

\* fetch('/api/voice/transcribe') resolves: a status that is not ok throws
TranscribeResolves ==
    \E v \in VoiceIds, r \in TranscribeResponses :
        /\ voice[v].pc = "transcribe"
        /\ IF ~Ok(r.status)
             THEN /\ typingHidden' = HideTypingHidden
                  /\ messages' = AddMessage(messages, "assistant",
                                    Str(IF voice[v].mode = "text" THEN VoiceApologyText
                                        ELSE VoiceApologyChat), <<"voice", v>>)
                  /\ voice' = [voice EXCEPT ![v] =
                                  Finished([@ EXCEPT !.how = "transcribeNotOk", !.response = r])]
                  /\ voiceModalHidden' = TRUE
             ELSE /\ voice' = [voice EXCEPT ![v] = [@ EXCEPT !.pc = "transcribeJson", !.response = r]]
                  /\ UNCHANGED <<typingHidden, messages, voiceModalHidden>>
        /\ UNCHANGED <<messageInput, send, chatRequests, voiceFrame, unchangedVoiceLogs, restVars>>

\* transcribeResponse.json() rejects
TranscribeJsonRejects ==
    \E v \in VoiceIds :
        /\ voice[v].pc = "transcribeJson"
        /\ ~voice[v].response.body.parses
        /\ ProcessVoiceCatch(v, "transcribeJsonRejected")

\* `!text || text.trim() === ''`
IsBlankUntrimmed(text) == ~Truthy(text)

IsBlank(text) == ~Truthy(text) \/ Trim(text.v) = <<>>

\* elements.messageInput.value = text
DictatedTrimmed(text) == Trim(text.v)

Dictated(text) == text.v

\* transcribeResponse.json() resolves: `const { text } = ...` throws on null,
\* text.trim throws when text is not a string
TranscribeJsonResolves ==
    \E v \in VoiceIds :
        LET data == voice[v].response.body.json
            text == Get(data, "text")
            by == <<"voice", v>>
        IN
        /\ voice[v].pc = "transcribeJson"
        /\ voice[v].response.body.parses
        /\ IF ~CanRead(data) \/ (Truthy(text) /\ text.t # "str")
             THEN ProcessVoiceCatch(v, "threw")
             ELSE IF IsBlank(text)
               THEN /\ typingHidden' = HideTypingHidden
                    /\ messages' = AddMessage(messages, "assistant", Str(DidntCatch), by)
                    /\ VoiceEnds(v, "blank")
                    /\ UNCHANGED <<messageInput, send, chatRequests, voiceFrame,
                                   unchangedVoiceLogs, restVars>>
               ELSE IF voice[v].mode = "text"
                 THEN /\ messageInput' = Dictated(text)
                      /\ typingHidden' = HideTypingHidden
                      /\ VoiceEnds(v, "dictated")
                      /\ UNCHANGED <<messages, send, chatRequests, voiceFrame,
                                     unchangedVoiceLogs, restVars>>
                 ELSE /\ messages' = AddMessage(messages, "user", text, by)
                      /\ typingHidden' = ShowTypingHidden
                      /\ chatRequests' = Append(chatRequests,
                                            [message |-> text.v, is_voice |-> TRUE, by |-> by])
                      /\ voice' = [voice EXCEPT ![v] = [@ EXCEPT !.pc = "chat"]]
                      /\ UNCHANGED <<messageInput, send, voiceModalHidden, voiceFrame,
                                     unchangedVoiceLogs, restVars>>

\* fetch('/api/chat') of processVoice rejects
VoiceChatRejects ==
    \E v \in VoiceIds :
        /\ voice[v].pc = "chat"
        /\ ProcessVoiceCatch(v, "chatRejected")

\* fetch('/api/chat') of processVoice resolves
VoiceChatResolves ==
    /\ \E v \in VoiceIds, r \in ChatResponses :
        /\ voice[v].pc = "chat"
        /\ voice' = [voice EXCEPT ![v] = [@ EXCEPT !.pc = "chatJson", !.response = r]]
    /\ UNCHANGED <<unchangedChat, voiceModalHidden, voiceFrame, unchangedVoiceLogs, restVars>>

\* chatResponse.json() rejects
VoiceChatJsonRejects ==
    \E v \in VoiceIds :
        /\ voice[v].pc = "chatJson"
        /\ ~voice[v].response.body.parses
        /\ ProcessVoiceCatch(v, "chatJsonRejected")

\* chatResponse.json() resolves: `const { reply } = ...` throws on null;
\* addMessage throws on a reply that is no string; else the reply is shown and
\* speakResponse posts it for synthesis
VoiceChatJsonResolves ==
    \E v \in VoiceIds :
        LET data == voice[v].response.body.json
            reply == Get(data, "reply")
            by == <<"voice", v>>
        IN
        /\ voice[v].pc = "chatJson"
        /\ voice[v].response.body.parses
        /\ IF ~CanRead(data) \/ AddMessageThrows("assistant", reply)
             THEN ProcessVoiceCatch(v, "threw")
             ELSE /\ typingHidden' = HideTypingHidden
                  /\ messages' = AddMessage(messages, "assistant", reply, by)
                  /\ synthRequests' = Append(synthRequests, [text |-> reply.v, by |-> by])
                  /\ voice' = [voice EXCEPT ![v] = [@ EXCEPT !.pc = "synth", !.reply = reply.v]]
                  /\ UNCHANGED <<messageInput, send, chatRequests, voiceModalHidden, voiceFrame,
                                 transcribeRequests, spoken, restVars>>

\* useBrowserSpeech: speaks when the browser has speechSynthesis
UseBrowserSpeech(v) ==
    \E supported \in BOOLEAN :
        spoken' = IF supported
                    THEN Append(spoken, [how |-> "browser", text |-> voice[v].reply, by |-> <<"voice", v>>])
                    ELSE spoken

\* speakResponse falls back, returns, and onstop finishes
FallsBack(v, how) ==
    /\ UseBrowserSpeech(v)
    /\ VoiceEnds(v, how)
    /\ UNCHANGED <<unchangedChat, voiceFrame, transcribeRequests, synthRequests, restVars>>

\* fetch('/api/voice/synthesize') rejects
SynthRejects ==
    \E v \in VoiceIds :
        /\ voice[v].pc = "synth"
        /\ FallsBack(v, "synthRejected")

\* fetch('/api/voice/synthesize') resolves
SynthResolves ==
    \E v \in VoiceIds, r \in SynthResponses :
        /\ voice[v].pc = "synth"
        /\ IF Ok(r.status)
             THEN /\ voice' = [voice EXCEPT ![v] = [@ EXCEPT !.pc = "synthJson", !.response = r]]
                  /\ UNCHANGED <<spoken, voiceModalHidden>>
             ELSE /\ UseBrowserSpeech(v)
                  /\ voice' = [voice EXCEPT ![v] =
                                  Finished([@ EXCEPT !.how = "synthNotOk", !.response = r])]
                  /\ voiceModalHidden' = TRUE
        /\ UNCHANGED <<unchangedChat, voiceFrame, transcribeRequests, synthRequests, restVars>>

\* response.json() of speakResponse rejects
SynthJsonRejects ==
    \E v \in VoiceIds :
        /\ voice[v].pc = "synthJson"
        /\ ~voice[v].response.body.parses
        /\ FallsBack(v, "synthJsonRejected")

\* response.json() of speakResponse resolves: `const { audio } = ...` throws on
\* null, audio.match throws when audio is no string; a truthy audio is decoded
\* and audioElement.play() is awaited
SynthJsonResolves ==
    \E v \in VoiceIds :
        LET data == voice[v].response.body.json
            audio == Get(data, "audio")
        IN
        /\ voice[v].pc = "synthJson"
        /\ voice[v].response.body.parses
        /\ IF ~CanRead(data) \/ (Truthy(audio) /\ audio.t # "str")
             THEN FallsBack(v, "threw")
             ELSE IF ~Truthy(audio)
               THEN FallsBack(v, "noAudio")
               ELSE /\ voice' = [voice EXCEPT ![v] = [@ EXCEPT !.pc = "play"]]
                    /\ UNCHANGED <<unchangedChat, voiceModalHidden, voiceFrame,
                                   unchangedVoiceLogs, restVars>>

\* audioElement.play() resolves
PlayResolves ==
    \E v \in VoiceIds :
        /\ voice[v].pc = "play"
        /\ spoken' = Append(spoken, [how |-> "remote", text |-> voice[v].reply, by |-> <<"voice", v>>])
        /\ VoiceEnds(v, "played")
        /\ UNCHANGED <<unchangedChat, voiceFrame, transcribeRequests, synthRequests, restVars>>

\* audioElement.play() rejects
PlayRejects ==
    \E v \in VoiceIds :
        /\ voice[v].pc = "play"
        /\ FallsBack(v, "playRejected")

(***************************************************************************)
(* Settings panel: portfolio and watchlist.  The two lists have the same    *)
(* code but for the names; `kind` says which.  The backend is not part of   *)
(* the page: it keeps each list with its tickers unique, and answers a read *)
(* with the list as it is when the read gets there.                         *)
(***************************************************************************)
PanelIds == 1 .. MaxPanel
Kinds == {"portfolio", "watchlist"}

\* String.prototype.toUpperCase, on the tickers typed here
ToUpperCase(text) ==
    [i \in DOMAIN text |->
        CASE text[i] = "tsla" -> "TSLA"
          [] text[i] = "aapl" -> "AAPL"
          [] OTHER -> text[i]]

\* what the user may have typed into a ticker box
TickerInputs == { <<>>, <<" ", "tsla">> }

\* the tickers a Remove button, or a call of window.removeFromPortfolio, names
Removable == { <<"TSLA">> }

\* the lists the backend may hold when the page loads
StoredLists == { <<>>, << <<"aapl">>, <<"TSLA">> >> }

\* POST /api/<kind>/add
ServerAdd(list, ticker) ==
    IF \E i \in DOMAIN list : list[i] = ticker THEN list ELSE Append(list, ticker)

\* DELETE /api/<kind>/<ticker>
ServerRemove(list, ticker) == SelectSeq(list, LAMBDA x : x # ticker)

\* an array value
Arr(items) == [t |-> "arr", v |-> items]

\* what a GET /api/<kind> may bring: the list as { <kind>: [{ ticker }, ...] },
\* an error object, or a body that is not JSON
ListAnswers(kind, list) ==
    { [status |-> 200,
       body |-> [parses |-> TRUE,
                 json |-> Obj([k \in {kind} |->
                                 Arr([i \in DOMAIN list |-> Obj([ticker |-> Str(list[i])])])])]],
      [status |-> 500, body |-> [parses |-> TRUE, json |-> Obj([error |-> Str(<<"x">>)])]],
      [status |-> 502, body |-> [parses |-> FALSE, json |-> Undef]] }

\* the list element after loadPortfolio / loadWatchlist rendered an array:
\* innerHTML is set to '' or to the empty-state card, then one item per stock
\* is appended
RenderingAppended(old, stocks) ==
    [emptyState |-> Len(stocks) = 0,
     items |-> old.items \o [i \in DOMAIN stocks |-> Get(stocks[i], "ticker").v]]

RenderingNoEmptyState(old, stocks) ==
    [emptyState |-> FALSE, items |-> [i \in DOMAIN stocks |-> Get(stocks[i], "ticker").v]]

Rendering(old, stocks) ==
    [emptyState |-> Len(stocks) = 0, items |-> [i \in DOMAIN stocks |-> Get(stocks[i], "ticker").v]]

\* a slot for a call: not made yet ("idle"), or over ("done")
Slot(pc) ==
    [pc |-> pc, op |-> "none", kind |-> "portfolio", ticker |-> <<>>, answer |-> NoResponse,
     before |-> [emptyState |-> FALSE, items |-> <<>>], absent |-> FALSE, settled |-> FALSE]

\* the call about to be made takes the first free slot
Free(c) == panel[c].pc = "idle" /\ \A u \in PanelIds : u < c => panel[u].pc # "idle"

\* the list element shows what the backend holds, and no call is under way
Settled(kind) ==
    /\ \A u \in PanelIds : panel[u].pc \in {"idle", "done"}
    /\ rendered[kind] = [emptyState |-> stored[kind] = <<>>, items |-> stored[kind]]

\* a call up to its first fetch.  With a removal are noted: what the list
\* element shows, whether the backend lacks the ticker, and Settled
Call(op, kind, ticker) ==
    [Slot(IF op = "load" THEN "fetch" ELSE "mutate") EXCEPT
        !.op = op, !.kind = kind, !.ticker = ticker,
        !.before = IF op = "remove" THEN rendered[kind] ELSE @,
        !.absent = op = "remove" /\ \A i \in DOMAIN stored[kind] : stored[kind][i] # ticker,
        !.settled = op = "remove" /\ Settled(kind)]

\* the call is over; what was noted with a removal stays
Over(c) ==
    [Slot("done") EXCEPT !.op = IF panel[c].op = "remove" THEN "remove" ELSE @,
                         !.kind = IF panel[c].op = "remove" THEN panel[c].kind ELSE @,
                         !.before = panel[c].before,
                         !.absent = panel[c].absent,
                         !.settled = panel[c].settled]

\* the user edits a ticker box
TypeTicker ==
    /\ \E kind \in Kinds, text \in TickerInputs :
        /\ tickerField[kind] = <<>> /\ text # <<>>
        /\ tickerField' = [tickerField EXCEPT ![kind] = text]
    /\ UNCHANGED <<stored, rendered, panel, notPanelVars>>

\* openSettings: loadPortfolio() and loadWatchlist() each issue their GET
OpenSettings ==
    /\ \E c \in PanelIds :
        /\ Free(c) /\ c + 1 \in PanelIds
        /\ panel' = [panel EXCEPT ![c] = Call("load", "portfolio", <<>>),
                                  ![c + 1] = Call("load", "watchlist", <<>>)]
    /\ UNCHANGED <<stored, rendered, tickerField, notPanelVars>>

\* addToPortfolio / addToWatchlist with an empty ticker: `if (!ticker) return`
AddReturnsEmpty ==
    /\ \E kind \in Kinds : ToUpperCase(Trim(tickerField[kind])) = <<>>
    /\ UNCHANGED vars

\* addToPortfolio / addToWatchlist up to `await fetch`
AddStarts ==
    /\ \E c \in PanelIds, kind \in Kinds :
        LET ticker == ToUpperCase(Trim(tickerField[kind])) IN
        /\ Free(c)
        /\ ticker # <<>>
        /\ panel' = [panel EXCEPT ![c] = Call("add", kind, ticker)]
    /\ UNCHANGED <<stored, rendered, tickerField, notPanelVars>>

\* removeFromPortfolio / removeFromWatchlist up to `await fetch`
RemoveStarts ==
    /\ \E c \in PanelIds, kind \in Kinds, ticker \in Removable :
        /\ Free(c)
        /\ panel' = [panel EXCEPT ![c] = Call("remove", kind, ticker)]
    /\ UNCHANGED <<stored, rendered, tickerField, notPanelVars>>

\* what the backend holds after a POST or DELETE reached it
Mutated(c) ==
    [stored EXCEPT ![panel[c].kind] =
        IF panel[c].op = "add" THEN ServerAdd(@, panel[c].ticker) ELSE ServerRemove(@, panel[c].ticker)]

\* the POST or DELETE resolves, the backend having done it or answered with an
\* error status: an add clears its boxes, and the list is loaded again
MutationResolves ==
    /\ \E c \in PanelIds, status \in {200, 500} :
        /\ panel[c].pc = "mutate"
        /\ stored' = IF status = 200 THEN Mutated(c) ELSE stored
        /\ tickerField' = IF panel[c].op = "add"
                            THEN [tickerField EXCEPT ![panel[c].kind] = <<>>]
                            ELSE tickerField
        /\ panel' = [panel EXCEPT ![c] = [@ EXCEPT !.pc = "fetch"]]
    /\ UNCHANGED <<rendered, notPanelVars>>

\* the POST or DELETE rejects, whether it reached the backend or not: the catch
\* block logs
MutationRejects ==
    /\ \E c \in PanelIds, reached \in BOOLEAN :
        /\ panel[c].pc = "mutate"
        /\ stored' = IF reached THEN Mutated(c) ELSE stored
        /\ panel' = [panel EXCEPT ![c] = Over(c)]
    /\ UNCHANGED <<rendered, tickerField, notPanelVars>>

\* the GET rejects: the catch block logs
LoadFetchRejects ==
    /\ \E c \in PanelIds :
        /\ panel[c].pc = "fetch"
        /\ panel' = [panel EXCEPT ![c] = Over(c)]
    /\ UNCHANGED <<stored, rendered, tickerField, notPanelVars>>

\* the GET resolves with what the backend answered
LoadFetchResolves ==
    /\ \E c \in PanelIds :
        /\ panel[c].pc = "fetch"
        /\ \E answer \in ListAnswers(panel[c].kind, stored[panel[c].kind]) :
              panel' = [panel EXCEPT ![c] = [@ EXCEPT !.pc = "json", !.answer = answer]]
    /\ UNCHANGED <<stored, rendered, tickerField, notPanelVars>>

\* response.json() rejects: the catch block logs
LoadJsonRejects ==
    /\ \E c \in PanelIds :
        /\ panel[c].pc = "json"
        /\ ~panel[c].answer.body.parses
        /\ panel' = [panel EXCEPT ![c] = Over(c)]
    /\ UNCHANGED <<stored, rendered, tickerField, notPanelVars>>

\* response.json() resolves: `const { portfolio } = ...` throws on null and
\* portfolio.length on undefined; an array is rendered
LoadJsonResolves ==
    /\ \E c \in PanelIds :
        LET data == panel[c].answer.body.json
            kind == panel[c].kind
        IN
        /\ panel[c].pc = "json"
        /\ panel[c].answer.body.parses
        /\ rendered' = IF CanRead(data) /\ CanRead(Get(data, kind))
                          THEN [rendered EXCEPT ![kind] = Rendering(@, Get(data, kind).v)]
                          ELSE rendered
        /\ panel' = [panel EXCEPT ![c] = Over(c)]
    /\ UNCHANGED <<stored, tickerField, notPanelVars>>

(***************************************************************************)
(* Ticker                                                                  *)
(***************************************************************************)
RefreshIds == 1 .. MaxRefresh

\* const defaultTickers
DefaultTickers ==
    << <<"AAPL">>, <<"MSFT">>, <<"GOOGL">>, <<"AMZN">>, <<"NVDA">>, <<"TSLA">>,
       <<"META">>, <<"NFLX">>, <<"AMD">>, <<"INTC">>, <<"CRM">>, <<"ORCL">>,
       <<"JPM">>, <<"V">>, <<"MA">>, <<"BAC">>,
       <<"JNJ">>, <<"PFE">>, <<"UNH">>,
       <<"XOM">>, <<"CVX">> >>

\* [...new Set(list)]: the first occurrence of each value, in order; values
\* are the same when they are the same string
RECURSIVE Unique(_)
Unique(list) ==
    IF list = <<>> THEN <<>>
    ELSE LET front == Unique(SubSeq(list, 1, Len(list) - 1))
             last == list[Len(list)]
         IN IF \E i \in DOMAIN front : front[i] = last THEN front ELSE Append(front, last)

\* stocks.map(s => s.ticker)
Tickers(stocks) == [i \in DOMAIN stocks |-> Get(stocks[i], "ticker").v]

\* loadTicker up to `await Promise.all([fetch, fetch])`; #ticker-content is in
\* the page
LoadTicker(r) ==
    /\ refresh[r].pc = "idle" /\ \A u \in RefreshIds : u < r => refresh[u].pc # "idle"
    /\ refresh' = [refresh EXCEPT ![r] = [@ EXCEPT !.pc = "lists"]]
    /\ UNCHANGED <<timers, tickerContent, stored, notTickerVars>>

\* DOMContentLoaded calls loadTicker
PageLoads == LoadTicker(1)

\* an armed interval comes round: its callback calls loadTicker
TimerFires ==
    /\ timers > 0
    /\ \E r \in RefreshIds : LoadTicker(r)

\* the catch block of loadTicker
LoadTickerCatch(r) ==
    /\ tickerContent' = "Market data unavailable"
    /\ refresh' = [refresh EXCEPT ![r] = [@ EXCEPT !.pc = "done"]]
    /\ UNCHANGED <<timers, stored, notTickerVars>>

\* one of the two GETs rejects, and Promise.all with it
TickerListsReject ==
    \E r \in RefreshIds :
        /\ refresh[r].pc = "lists"
        /\ LoadTickerCatch(r)

\* both GETs resolve
TickerListsResolve ==
    /\ \E r \in RefreshIds :
        /\ refresh[r].pc = "lists"
        /\ \E p \in ListAnswers("portfolio", stored.portfolio),
              w \in ListAnswers("watchlist", stored.watchlist) :
              refresh' = [refresh EXCEPT ![r] =
                            [@ EXCEPT !.pc = "portfolioJson", !.portfolioRes = p, !.watchlistRes = w]]
    /\ UNCHANGED <<timers, tickerContent, stored, notTickerVars>>

\* portfolioRes.json() settles: a rejection, and `const { portfolio }` of
\* null, throw
TickerPortfolioJson ==
    \E r \in RefreshIds :
        LET body == refresh[r].portfolioRes.body IN
        /\ refresh[r].pc = "portfolioJson"
        /\ IF ~body.parses \/ ~CanRead(body.json)
             THEN LoadTickerCatch(r)
             ELSE /\ refresh' = [refresh EXCEPT ![r] = [@ EXCEPT !.pc = "watchlistJson"]]
                  /\ UNCHANGED <<timers, tickerContent, stored, notTickerVars>>

\* watchlistRes.json() settles; the symbols are put together, and
\* updateTickerWithStocks issues one quote fetch for each; portfolio.map and
\* watchlist.map throw on undefined
TickerWatchlistJson ==
    \E r \in RefreshIds :
        LET body == refresh[r].watchlistRes.body
            portfolio == Get(refresh[r].portfolioRes.body.json, "portfolio")
            watchlist == Get(body.json, "watchlist")
        IN
        /\ refresh[r].pc = "watchlistJson"
        /\ IF ~body.parses \/ ~CanRead(body.json) \/ ~CanRead(portfolio) \/ ~CanRead(watchlist)
             THEN LoadTickerCatch(r)
             ELSE /\ refresh' = [refresh EXCEPT ![r] =
                        [@ EXCEPT !.pc = "quotes",
                                  !.tickers = Unique(DefaultTickers \o Tickers(portfolio.v)
                                                       \o Tickers(watchlist.v))]]
                  /\ UNCHANGED <<timers, tickerContent, stored, notTickerVars>>

\* every quote fetch has settled: updateTickerWithStocks shows the items that
\* have a price, or one of its placeholders, and returns; loadTicker then arms
\* an interval
QuotesSettle ==
    /\ \E r \in RefreshIds :
        /\ refresh[r].pc = "quotes"
        /\ \E shows \in {"items", "No stock data available", "Market data unavailable"} :
              tickerContent' = shows
        /\ timers' = timers + 1
        /\ refresh' = [refresh EXCEPT ![r] = [@ EXCEPT !.pc = "done"]]
    /\ UNCHANGED <<stored, notTickerVars>>

(***************************************************************************)
(* Morning wisdom.  Every page of the origin calls checkMorningWisdom when  *)
(* it loads; the pages share localStorage and the clock.                    *)
(***************************************************************************)
WisdomIds == 1 .. MaxWisdom

\* the local times the calls are made at: new Date().toDateString() and
\* new Date().getHours(); 06:59 has hour 6 and 09:00 has hour 9
Moments ==
    << [date |-> <<"Wed Nov 04 2026">>, hour |-> 6],
       [date |-> <<"Wed Nov 04 2026">>, hour |-> 7],
       [date |-> <<"Wed Nov 04 2026">>, hour |-> 8],
       [date |-> <<"Wed Nov 04 2026">>, hour |-> 9],
       [date |-> <<"Thu Nov 05 2026">>, hour |-> 7] >>

\* what GET /api/morning-wisdom may bring
WisdomResponses ==
    { [status |-> 200, body |-> [parses |-> TRUE, json |-> Obj([wisdom |-> Str(<<"Buy", " ", "low">>)])]],
      [status |-> 200, body |-> [parses |-> TRUE, json |-> Obj([wisdom |-> Str(<<>>)])]],
      [status |-> 200, body |-> [parses |-> TRUE, json |-> Null]],
      [status |-> 500, body |-> [parses |-> TRUE, json |-> Obj([error |-> Str(<<"x">>)])]],
      [status |-> 502, body |-> [parses |-> FALSE, json |-> Undef]] }

\* time passes
Tick ==
    /\ clock < Len(Moments)
    /\ clock' = clock + 1
    /\ UNCHANGED <<permission, wisdomDate, wisdom, wisdomRequests, notices, notWisdomVars>>

\* `if (hour < 7 || hour >= 9) return` lets these hours through
InWindowToNine(hour) == hour >= 7 /\ hour <= 9

InWindow(hour) == ~(hour < 7 \/ hour >= 9)

\* checkMorningWisdom has ended
WisdomEnds(w, how) == wisdom' = [wisdom EXCEPT ![w] = [@ EXCEPT !.pc = "done", !.how = how]]

\* a page loads: checkMorningWisdom up to its return or to `await fetch`
CheckMorningWisdom ==
    /\ \E w \in WisdomIds :
        LET now == Moments[clock]
            lastShown == wisdomDate
            call == [wisdom[w] EXCEPT !.hour = now.hour, !.today = now.date,
                                      !.lastShown = lastShown, !.permission = permission]
        IN
        /\ wisdom[w].pc = "idle" /\ \A u \in WisdomIds : u < w => wisdom[u].pc # "idle"
        /\ IF ~InWindow(now.hour) \/ lastShown = Str(now.date) \/ permission # "granted"
             THEN /\ wisdom' = [wisdom EXCEPT ![w] = [call EXCEPT !.pc = "done", !.how = "returned"]]
                  /\ UNCHANGED wisdomRequests
             ELSE /\ wisdom' = [wisdom EXCEPT ![w] = [call EXCEPT !.pc = "fetch"]]
                  /\ wisdomRequests' = Append(wisdomRequests, w)
    /\ UNCHANGED <<clock, permission, wisdomDate, notices, notWisdomVars>>

\* the fetch rejects: the catch block logs
WisdomFetchRejects ==
    /\ \E w \in WisdomIds : wisdom[w].pc = "fetch" /\ WisdomEnds(w, "caught")
    /\ UNCHANGED <<clock, permission, wisdomDate, wisdomRequests, notices, notWisdomVars>>

\* the fetch resolves
WisdomFetchResolves ==
    /\ \E w \in WisdomIds, response \in WisdomResponses :
        /\ wisdom[w].pc = "fetch"
        /\ wisdom' = [wisdom EXCEPT ![w] = [@ EXCEPT !.pc = "json", !.response = response]]
    /\ UNCHANGED <<clock, permission, wisdomDate, wisdomRequests, notices, notWisdomVars>>

\* response.json() settles: a rejection, and data.wisdom of null, go to the
\* catch block; a truthy wisdom is shown and the call's `today` is stored
WisdomJsonSettles ==
    /\ \E w \in WisdomIds :
        LET body == wisdom[w].response.body IN
        /\ wisdom[w].pc = "json"
        /\ IF ~body.parses \/ ~CanRead(body.json)
             THEN WisdomEnds(w, "caught") /\ UNCHANGED <<wisdomDate, notices>>
             ELSE IF Truthy(Get(body.json, "wisdom"))
                    THEN /\ notices' = Append(notices, [title |-> <<"Good Morning">>,
                                                        body |-> Get(body.json, "wisdom"),
                                                        tag |-> "morning-wisdom", by |-> w])
                         /\ wisdomDate' = Str(wisdom[w].today)
                         /\ WisdomEnds(w, "shown")
                    ELSE WisdomEnds(w, "nothing") /\ UNCHANGED <<wisdomDate, notices>>
    /\ UNCHANGED <<clock, permission, wisdomRequests, notWisdomVars>>

(***************************************************************************)
(* Service worker: requests, responses, CacheStorage                       *)
(***************************************************************************)
CACHE_NAME == "stockman-v1"

Root == <<"/">>

ASSETS_TO_CACHE ==
    << Root,
       <<"/", "index.html">>,
       <<"/", "css", "/", "styles.css">>,
       <<"/", "js", "/", "app.js">>,
       <<"/", "manifest.json">> >>

ApiMarker == <<"/", "api", "/">>

\* the requests the page makes: for an asset, a file outside the manifest, two
\* API paths, and a path that holds "/api" but not "/api/"
Requests ==
    [method : { "GET", "POST" },
     url : { Root,
             <<"/", "img", "/", "logo.png">>,
             <<"/", "api", "/", "chat">>,
             <<"/", "v2", "/", "api", "/", "quote">>,
             <<"/", "api">> }]

Get_(url) == [method |-> "GET", url |-> url]

\* String.prototype.includes
Includes(s, sub) ==
    \E i \in 0 .. (Len(s) - Len(sub)) : SubSeq(s, i + 1, i + Len(sub)) = sub

NoResp == [url |-> <<>>, ver |-> 0]

\* what the network answers now
NetworkResponse(url, ver) == [url |-> url, ver |-> ver]

HasCache(cs, name) == \E i \in DOMAIN cs : cs[i].name = name

\* caches.keys()
CachesKeys(cs) == [i \in DOMAIN cs |-> cs[i].name]

\* caches.open(name): creates the cache when there is none
CachesOpen(cs, name) ==
    IF HasCache(cs, name) THEN cs ELSE Append(cs, [name |-> name, entries |-> [r \in {} |-> NoResp]])

\* caches.delete(name)
CachesDelete(cs, name) == SelectSeq(cs, LAMBDA c : c.name # name)

EntriesPut(entries, req, resp) ==
    [r \in DOMAIN entries \cup {req} |-> IF r = req THEN resp ELSE entries[r]]

\* cache.put(request, response) on the cache of that name
CachePutKeepsOld(cs, name, req, resp) ==
    [i \in DOMAIN cs |->
        IF cs[i].name = name /\ req \notin DOMAIN cs[i].entries
          THEN [cs[i] EXCEPT !.entries = EntriesPut(@, req, resp)]
          ELSE cs[i]]

CachePut(cs, name, req, resp) ==
    [i \in DOMAIN cs |->
        IF cs[i].name = name
          THEN [cs[i] EXCEPT !.entries = EntriesPut(@, req, resp)]
          ELSE cs[i]]

\* cache.addAll(urls), every fetch having succeeded
RECURSIVE CacheAddAll(_, _, _, _)
CacheAddAll(cs, name, urls, ver) ==
    IF urls = <<>> THEN cs
    ELSE CacheAddAll(CachePut(cs, name, Get_(Head(urls)), NetworkResponse(Head(urls), ver)),
                     name, Tail(urls), ver)

\* caches.match(request): the entry of the first cache, in creation order, that
\* holds the request; undefined when none does
CachesMatch(cs, req) ==
    LET hits == { i \in DOMAIN cs : req \in DOMAIN cs[i].entries } IN
    IF hits = {} THEN [t |-> "undef", resp |-> NoResp]
    ELSE LET first == CHOOSE i \in hits : \A j \in hits : i <= j
         IN [t |-> "response", resp |-> cs[first].entries[req]]

\* the caches the origin may hold when the worker is installed: left by earlier
\* versions, by an earlier install of this version, or by other code
PriorNames == { "stockman-v0", CACHE_NAME, "other" }

StaleEntries == [r \in {Get_(Root)} |-> NetworkResponse(Root, 0)]

PriorStorages ==
    { cs \in UNION { [1 .. n -> PriorNames] : n \in 0 .. Cardinality(PriorNames) } :
         \A i, j \in DOMAIN cs : i # j => cs[i] # cs[j] }

(***************************************************************************)
(* Service worker: install and activate                                    *)
(***************************************************************************)
\* the server publishes new content
ServerDeploy ==
    /\ serverVer < MaxVer
    /\ serverVer' = serverVer + 1
    /\ UNCHANGED <<cacheStorage, installPc, activate, claimed, deleteCalls, fetchEv, cacheLog>>
    /\ UNCHANGED notCacheVars

\* the install listener: caches.open is started, skipWaiting is called
InstallEvent ==
    /\ installPc = "parsed"
    /\ installPc' = "open"
    /\ UNCHANGED <<cacheStorage, serverVer, activate, claimed, deleteCalls, fetchEv, cacheLog>>
    /\ UNCHANGED notCacheVars

\* caches.open(CACHE_NAME) resolves; cache.addAll is started
InstallOpened ==
    /\ installPc = "open"
    /\ installPc' = "addAll"
    /\ cacheStorage' = CachesOpen(cacheStorage, CACHE_NAME)
    /\ UNCHANGED <<serverVer, activate, claimed, deleteCalls, fetchEv, cacheLog>>
    /\ UNCHANGED notCacheVars

\* cache.addAll resolves: every asset is stored
InstallAddAllResolves ==
    /\ installPc = "addAll"
    /\ installPc' = "installed"
    /\ cacheStorage' = CacheAddAll(cacheStorage, CACHE_NAME, ASSETS_TO_CACHE, serverVer)
    /\ UNCHANGED <<serverVer, activate, claimed, deleteCalls, fetchEv, cacheLog>>
    /\ UNCHANGED notCacheVars

\* cache.addAll rejects: nothing is stored, the worker is discarded
InstallAddAllRejects ==
    /\ installPc = "addAll"
    /\ installPc' = "redundant"
    /\ UNCHANGED <<cacheStorage, serverVer, activate, claimed, deleteCalls, fetchEv, cacheLog>>
    /\ UNCHANGED notCacheVars

\* .filter((name) => name !== CACHE_NAME)
StaleNamesAll(names) == names

StaleNames(names) == SelectSeq(names, LAMBDA name : name # CACHE_NAME)

Range(s) == { s[i] : i \in DOMAIN s }

\* the caches.delete calls of one .map over the names
CountDeletes(calls, names) ==
    [n \in DOMAIN calls |-> calls[n] + Cardinality({ i \in DOMAIN names : names[i] = n })]

\* the activate listener: caches.keys() is started, then clients.claim() is called
ActivateEvent ==
    /\ installPc = "installed"
    /\ activate.pc = "waiting"
    /\ activate' = [activate EXCEPT !.pc = "keys"]
    /\ claimed' = TRUE
    /\ UNCHANGED <<cacheStorage, serverVer, installPc, deleteCalls, fetchEv, cacheLog>>
    /\ UNCHANGED notCacheVars

\* caches.keys() resolves: caches.delete is called for every name that passes
\* the filter
ActivateKeysResolve ==
    /\ activate.pc = "keys"
    /\ LET names == CachesKeys(cacheStorage)
           stale == StaleNames(names)
       IN /\ activate' = [pc |-> "deleting", names |-> names, pending |-> Range(stale)]
          /\ deleteCalls' = CountDeletes(deleteCalls, stale)
    /\ UNCHANGED <<cacheStorage, serverVer, installPc, claimed, fetchEv, cacheLog>>
    /\ UNCHANGED notCacheVars

\* one caches.delete(name) completes
ActivateDeleteResolves ==
    /\ activate.pc = "deleting"
    /\ \E name \in activate.pending :
        /\ cacheStorage' = CachesDelete(cacheStorage, name)
        /\ activate' = [activate EXCEPT !.pending = @ \ {name}]
    /\ UNCHANGED <<serverVer, installPc, claimed, deleteCalls, fetchEv, cacheLog>>
    /\ UNCHANGED notCacheVars

\* Promise.all resolves: the waitUntil promise settles, the worker is activated
ActivateDone ==
    /\ activate.pc = "deleting"
    /\ activate.pending = {}
    /\ activate' = [activate EXCEPT !.pc = "activated"]
    /\ UNCHANGED <<cacheStorage, serverVer, installPc, claimed, deleteCalls, fetchEv, cacheLog>>
    /\ UNCHANGED notCacheVars

(***************************************************************************)
(* Service worker: the fetch listener                                      *)
(***************************************************************************)
FetchIds == 1 .. MaxFetch

NoResult == [kind |-> "none", via |-> "none", resp |-> NoResp]

\* the two early returns of the listener: true when it goes on to respondWith
InterceptsEveryGet(req) == req.method = "GET"

Intercepts(req) == req.method = "GET" /\ ~Includes(req.url, ApiMarker)

\* event.respondWith(promise), the promise having resolved with `value`: a
\* value that is no Response is a network error for the page
RespondWithOffline(value) ==
    IF value.t = "response"
      THEN [kind |-> "response", via |-> value.via, resp |-> value.resp]
      ELSE [kind |-> "response", via |-> "synthesized", resp |-> NoResp]

RespondWith(value) ==
    IF value.t = "response"
      THEN [kind |-> "response", via |-> value.via, resp |-> value.resp]
      ELSE [kind |-> "error", via |-> "none", resp |-> NoResp]

\* a fetch event is dispatched to the activated worker; the listener returns
\* without respondWith, or starts fetch(event.request)
FetchEvent ==
    /\ activate.pc = "activated"
    /\ \E e \in FetchIds, req \in Requests :
        /\ fetchEv[e].pc = "idle"
        /\ \A d \in FetchIds : d < e => fetchEv[d].pc # "idle"
        /\ fetchEv' = [fetchEv EXCEPT ![e] =
              [@ EXCEPT !.request = req,
                        !.pc = IF Intercepts(req) THEN "network" ELSE "passthrough"]]
    /\ UNCHANGED <<cacheStorage, serverVer, installPc, activate, claimed, deleteCalls, cacheLog>>
    /\ UNCHANGED notCacheVars

\* fetch(event.request) resolves: the response is cloned, caches.open is
\* started, and the response itself resolves the respondWith promise
FetchNetworkResolves ==
    /\ \E e \in FetchIds :
        LET response == NetworkResponse(fetchEv[e].request.url, serverVer) IN
        /\ fetchEv[e].pc = "network"
        /\ fetchEv' = [fetchEv EXCEPT ![e] =
              [@ EXCEPT !.pc = "open", !.net = response,
                        !.result = RespondWith([t |-> "response", via |-> "network",
                                                resp |-> response])]]
    /\ UNCHANGED <<cacheStorage, serverVer, installPc, activate, claimed, deleteCalls, cacheLog>>
    /\ UNCHANGED notCacheVars

\* caches.open(CACHE_NAME) resolves: cache.put(event.request, responseClone)
\* is started
FetchCacheOpened ==
    /\ \E e \in FetchIds :
        /\ fetchEv[e].pc = "open"
        /\ fetchEv' = [fetchEv EXCEPT ![e] = [@ EXCEPT !.pc = "put"]]
    /\ cacheStorage' = CachesOpen(cacheStorage, CACHE_NAME)
    /\ UNCHANGED <<serverVer, installPc, activate, claimed, deleteCalls, cacheLog>>
    /\ UNCHANGED notCacheVars

\* cache.put completes
FetchCachePut ==
    /\ \E e \in FetchIds :
        /\ fetchEv[e].pc = "put"
        /\ fetchEv' = [fetchEv EXCEPT ![e] = [@ EXCEPT !.pc = "done"]]
        /\ cacheStorage' = CachePut(cacheStorage, CACHE_NAME, fetchEv[e].request, fetchEv[e].net)
        /\ cacheLog' = cacheLog \cup {[op |-> "put", request |-> fetchEv[e].request]}
    /\ UNCHANGED <<serverVer, installPc, activate, claimed, deleteCalls>>
    /\ UNCHANGED notCacheVars

\* fetch(event.request) rejects: caches.match(event.request) is started
FetchNetworkRejects ==
    /\ \E e \in FetchIds :
        /\ fetchEv[e].pc = "network"
        /\ fetchEv' = [fetchEv EXCEPT ![e] = [@ EXCEPT !.pc = "match"]]
    /\ UNCHANGED <<cacheStorage, serverVer, installPc, activate, claimed, deleteCalls, cacheLog>>
    /\ UNCHANGED notCacheVars

\* caches.match resolves, with a response or with undefined, and that resolves
\* the respondWith promise
FetchMatchResolves ==
    /\ \E e \in FetchIds :
        LET found == CachesMatch(cacheStorage, fetchEv[e].request) IN
        /\ fetchEv[e].pc = "match"
        /\ fetchEv' = [fetchEv EXCEPT ![e] =
              [@ EXCEPT !.pc = "done",
                        !.result = RespondWith([t |-> found.t, via |-> "cache",
                                                resp |-> found.resp])]]
        /\ cacheLog' = cacheLog \cup {[op |-> "match", request |-> fetchEv[e].request]}
    /\ UNCHANGED <<cacheStorage, serverVer, installPc, activate, claimed, deleteCalls>>
    /\ UNCHANGED notCacheVars


(***************************************************************************)
(* Service worker: push                                                    *)
(***************************************************************************)
\* let data = { title, body, icon, badge, data: { url: '/' } }
DefaultDescriptor ==
    [title |-> Str(<<"Stockman">>),
     body |-> Str(<<"You have a new update!">>),
     icon |-> Str(<<"/", "icons", "/", "icon-192.png">>),
     badge |-> Str(<<"/", "icons", "/", "icon-72.png">>),
     data |-> Obj([url |-> Str(Root)])]

\* event.data.json(): JSON.parse of the payload text; it throws on the texts
\* that are not JSON
JsonParse(text) ==
    CASE text = <<"{", "}">> -> [parses |-> TRUE, json |-> Obj(<<>>)]
      [] text = <<"{", "\"title\"", ":", "\"Alert\"", ",", "\"body\"", ":", "\"Sell\"", "}">> ->
            [parses |-> TRUE, json |-> Obj([title |-> Str(<<"Alert">>), body |-> Str(<<"Sell">>)])]
      [] text = <<"{", "\"data\"", ":", "{", "\"url\"", ":", "\"/p\"", "}", "}">> ->
            [parses |-> TRUE, json |-> Obj([data |-> Obj([url |-> Str(<<"/", "p">>)])])]
      [] text = <<"{", "\"data\"", ":", "{", "}", "}">> ->
            [parses |-> TRUE, json |-> Obj([data |-> Obj(<<>>)])]
      [] text = <<"{", "\"data\"", ":", "null", "}">> ->
            [parses |-> TRUE, json |-> Obj([data |-> Null])]
      [] text = <<"7">> -> [parses |-> TRUE, json |-> Num(7)]
      [] OTHER -> [parses |-> FALSE, json |-> Undef]

\* event.data: null, or a message with text: plain words, a cut-off object,
\* and the JSON texts above
Payloads ==
    { [present |-> FALSE, text |-> <<>>] }
      \cup { [present |-> TRUE, text |-> x] :
                x \in { <<"AAPL", " ", "up", " ", "3%">>,
                        <<"{", "\"title\"", ":">>,
                        <<"{", "}">>,
                        <<"{", "\"title\"", ":", "\"Alert\"", ",", "\"body\"", ":", "\"Sell\"", "}">>,
                        <<"{", "\"data\"", ":", "{", "\"url\"", ":", "\"/p\"", "}", "}">>,
                        <<"{", "\"data\"", ":", "{", "}", "}">>,
                        <<"{", "\"data\"", ":", "null", "}">>,
                        <<"7">> } }

\* the own enumerable properties `...x` copies: those of an object; none of
\* null, of a number or of a boolean
Spread(x) == IF x.t = "obj" THEN x.f ELSE <<>>

\* { ...a, ...b }
Merge(a, b) == [k \in DOMAIN a \cup DOMAIN b |-> IF k \in DOMAIN b THEN b[k] ELSE a[k]]

\* the catch block: data.body = event.data.text()
TextAsTitle(data, text) == [data EXCEPT !.title = Str(text)]

TextAsBody(data, text) == [data EXCEPT !.body = Str(text)]

\* data, after `if (event.data) { try ... catch ... }`
PushDescriptor(payload) ==
    IF ~payload.present THEN DefaultDescriptor
    ELSE IF JsonParse(payload.text).parses
      THEN Merge(DefaultDescriptor, Spread(JsonParse(payload.text).json))
      ELSE TextAsBody(DefaultDescriptor, payload.text)

\* a notification with the tag of one on display replaces it
ReplaceTagged(list, tag) ==
    [i \in DOMAIN list |-> IF list[i].tag = tag THEN [list[i] EXCEPT !.closed = TRUE] ELSE list[i]]

\* registration.showNotification(data.title, options)
ShowNotification(list, data, payload) ==
    Append(ReplaceTagged(list, "stockman-notification"),
           [title |-> data.title, body |-> data.body, icon |-> data.icon, badge |-> data.badge,
            data |-> data.data, tag |-> "stockman-notification", closed |-> FALSE,
            payload |-> payload])

\* the push listener
PushEvent ==
    /\ pushes < MaxPush
    /\ \E payload \in Payloads :
        /\ shown' = ShowNotification(shown, PushDescriptor(payload), payload)
        /\ pushes' = pushes + 1
    /\ UNCHANGED <<clients, click>>
    /\ UNCHANGED notNotifyVars

(***************************************************************************)
(* Service worker: notificationclick                                       *)
(***************************************************************************)
ClickIds == 1 .. MaxClicks

\* self.location.origin
Origin == <<"https://stockman.app">>

\* the window clients the origin may have when the first event arrives
StartClients ==
    { <<>>,
      << <<"about:blank">> >>,
      << Origin \o Root >>,
      << <<"about:blank">>, Origin \o Root >>,
      << Origin \o <<"/", "p">>, Origin \o Root >>,
      << <<"about:blank">>, <<"about:blank">> >> }

Op(op, client, url) == [op |-> op, client |-> client, url |-> url]

\* event.notification.data?.url || '/'
UrlToOpen(data) ==
    LET url == IF data.t = "obj" THEN Get(data, "url") ELSE Undef
    IN IF Truthy(url) THEN url.v ELSE Root

\* client.url.includes(self.location.origin) && 'focus' in client
Matches(client) == Includes(client.url, Origin)

\* the client the for loop returns on: the first that matches, 0 when none does
LastMatch(list) ==
    LET hits == { i \in DOMAIN list : Matches(list[i]) } IN
    IF hits = {} THEN 0 ELSE CHOOSE i \in hits : \A j \in hits : j <= i

FirstMatch(list) ==
    LET hits == { i \in DOMAIN list : Matches(list[i]) } IN
    IF hits = {} THEN 0 ELSE CHOOSE i \in hits : \A j \in hits : i <= j

\* `if (event.action === 'dismiss') return`
ReturnsEarly(action) == action = "dismiss"

\* the notificationclick listener up to matchAll: the notification is closed;
\* 'dismiss' returns
NotificationClick ==
    /\ \E c \in ClickIds, n \in DOMAIN shown, action \in { "", "open", "dismiss" } :
        /\ click[c].pc = "idle"
        /\ \A b \in ClickIds : b < c => click[b].pc # "idle"
        /\ ~shown[n].closed
        /\ shown' = [shown EXCEPT ![n].closed = TRUE]
        /\ click' = [click EXCEPT ![c] =
              [@ EXCEPT !.notification = n, !.action = action,
                        !.log = <<Op("close", 0, <<>>)>>,
                        !.pc = IF ReturnsEarly(action) THEN "done" ELSE "matchAll",
                        !.urlToOpen = IF ReturnsEarly(action) THEN <<>>
                                      ELSE UrlToOpen(shown[n].data)]]
    /\ UNCHANGED <<pushes, clients>>
    /\ UNCHANGED notNotifyVars

\* clients.matchAll resolves: the first matching client is focused, or a
\* window is opened
ClickMatchAllResolves ==
    /\ \E c \in ClickIds :
        LET first == FirstMatch(clients) IN
        /\ click[c].pc = "matchAll"
        /\ IF first # 0
             THEN /\ clients' = [clients EXCEPT ![first].focused = @ + 1]
                  /\ click' = [click EXCEPT ![c] =
                        [@ EXCEPT !.pc = "done", !.seen = clients,
                                  !.log = Append(@, Op("focus", first, <<>>))]]
             ELSE /\ clients' = Append(clients, [url |-> Origin \o click[c].urlToOpen, focused |-> 0])
                  /\ click' = [click EXCEPT ![c] =
                        [@ EXCEPT !.pc = "done", !.seen = clients,
                                  !.log = Append(@, Op("open", 0, click[c].urlToOpen))]]
    /\ UNCHANGED <<shown, pushes>>
    /\ UNCHANGED notNotifyVars

(***************************************************************************)
(* Initial states and specifications                                       *)
(***************************************************************************)
\* the page has loaded
PageStart ==
    /\ messageInput = <<>>
    /\ messages = <<>>
    /\ typingHidden = TRUE
    /\ send = [t \in SendIds |-> [pc |-> "idle", message |-> <<>>, response |-> NoResponse, how |-> "none"]]
    /\ chatRequests = <<>>

\* the worker script has been parsed; the origin holds the caches `names`
WorkerStart(names) ==
    /\ cacheStorage = [i \in DOMAIN names |-> [name |-> names[i], entries |-> StaleEntries]]
    /\ serverVer = 1
    /\ installPc = "parsed"
    /\ activate = [pc |-> "waiting", names |-> <<>>, pending |-> {}]
    /\ claimed = FALSE
    /\ deleteCalls = [n \in PriorNames |-> 0]
    /\ fetchEv = [e \in FetchIds |-> [pc |-> "idle", request |-> Get_(Root), net |-> NoResp, result |-> NoResult]]
    /\ cacheLog = {}

\* no push has arrived; the origin has the window clients `list`
NotifyStart(list) ==
    /\ shown = <<>>
    /\ pushes = 0
    /\ clients = [i \in DOMAIN list |-> [url |-> list[i], focused |-> 0]]
    /\ click = [c \in ClickIds |-> [pc |-> "idle", notification |-> 0, action |-> "", urlToOpen |-> <<>>,
                                    seen |-> <<>>, log |-> <<>>]]

\* the State section of the page script, and the modal as the page has it
VoiceStart ==
    /\ isRecording = FALSE
    /\ mediaRecorder = 0
    /\ audioChunks = <<>>
    /\ currentVoiceMode = "null"
    /\ voiceModalHidden = TRUE
    /\ voiceStatus = ""
    /\ voice = [v \in VoiceIds |-> [pc |-> "idle", mode |-> "chat", stream |-> "none", recorder |-> "none",
                                    blob |-> <<>>, response |-> NoResponse, reply |-> <<>>, how |-> "none"]]
    /\ transcribeRequests = <<>>
    /\ synthRequests = <<>>
    /\ spoken = <<>>

\* the settings panel before it is opened (or, loaded, after an earlier load),
\* and the backend's lists
PanelStart(portfolio, watchlist, loaded) ==
    /\ stored = [portfolio |-> portfolio, watchlist |-> watchlist]
    /\ rendered = [kind \in Kinds |->
                     [emptyState |-> loaded /\ stored[kind] = <<>>,
                      items |-> IF loaded THEN stored[kind] ELSE <<>>]]
    /\ tickerField = [kind \in Kinds |-> <<>>]
    /\ panel = [c \in PanelIds |-> Slot("idle")]

\* the ticker as the page has it
TickerStart ==
    /\ timers = 0
    /\ refresh = [r \in RefreshIds |->
                    [pc |-> "idle", portfolioRes |-> NoResponse, watchlistRes |-> NoResponse,
                     tickers |-> <<>>]]
    /\ tickerContent = "Loading"

\* the page and the worker with nothing going on
\* no checkMorningWisdom call was made yet
WisdomStart(c, p, d) ==
    /\ clock = c
    /\ permission = p
    /\ wisdomDate = d
    /\ wisdom = [w \in WisdomIds |->
                   [pc |-> "idle", how |-> "none", hour |-> 0, today |-> <<>>, lastShown |-> Null,
                    permission |-> "default", response |-> NoResponse]]
    /\ wisdomRequests = <<>>
    /\ notices = <<>>

Quiet == PanelStart(<<>>, <<>>, FALSE) /\ TickerStart /\ WisdomStart(1, "default", Null)

InitChat ==
    PageStart /\ VoiceStart /\ WorkerStart(<<>>) /\ NotifyStart(<<Origin \o Root>>) /\ Quiet

NextChat ==
    \/ TypeInput
    \/ SendMessageReturnsEmpty
    \/ SendMessageStart
    \/ SendMessageFetchRejects
    \/ SendMessageFetchResolves
    \/ SendMessageJsonRejects
    \/ SendMessageJsonResolves

SpecChat == InitChat /\ [][NextChat]_vars

InitCache ==
    /\ PageStart
    /\ VoiceStart
    /\ \E names \in PriorStorages : WorkerStart(names)
    /\ NotifyStart(<<Origin \o Root>>)
    /\ Quiet

NextCache ==
    \/ ServerDeploy
    \/ InstallEvent
    \/ InstallOpened
    \/ InstallAddAllResolves
    \/ InstallAddAllRejects
    \/ ActivateEvent
    \/ ActivateKeysResolve
    \/ ActivateDeleteResolves
    \/ ActivateDone
    \/ FetchEvent
    \/ FetchNetworkResolves
    \/ FetchCacheOpened
    \/ FetchCachePut
    \/ FetchNetworkRejects
    \/ FetchMatchResolves

SpecCache == InitCache /\ [][NextCache]_vars


InitNotify ==
    /\ PageStart /\ VoiceStart /\ WorkerStart(<<CACHE_NAME>>) /\ Quiet
    /\ \E list \in StartClients : NotifyStart(list)

NextNotify ==
    \/ PushEvent
    \/ NotificationClick
    \/ ClickMatchAllResolves

SpecNotify == InitNotify /\ [][NextNotify]_vars

InitVoice ==
    PageStart /\ VoiceStart /\ WorkerStart(<<>>) /\ NotifyStart(<<Origin \o Root>>) /\ Quiet

NextVoiceStep ==
    \/ StartVoice
    \/ GetUserMediaRejects
    \/ GetUserMediaResolves
    \/ StopVoice
    \/ StopVoiceIdle
    \/ RecorderStops
    \/ TranscribeRejects
    \/ TranscribeResolves
    \/ TranscribeJsonRejects
    \/ TranscribeJsonResolves
    \/ VoiceChatRejects
    \/ VoiceChatResolves
    \/ VoiceChatJsonRejects
    \/ VoiceChatJsonResolves
    \/ SynthRejects
    \/ SynthResolves
    \/ SynthJsonRejects
    \/ SynthJsonResolves
    \/ PlayResolves
    \/ PlayRejects

SpecVoice == InitVoice /\ [][NextVoiceStep]_vars

\* what happens without the user starting anything: the user taps stop while
\* the page records, the recorder's events fire, and every getUserMedia,
\* fetch, json() and play() promise settles
VoiceSettles ==
    \/ GetUserMediaRejects \/ GetUserMediaResolves
    \/ StopVoice
    \/ RecorderStops
    \/ TranscribeRejects \/ TranscribeResolves
    \/ TranscribeJsonRejects \/ TranscribeJsonResolves
    \/ VoiceChatRejects \/ VoiceChatResolves
    \/ VoiceChatJsonRejects \/ VoiceChatJsonResolves
    \/ SynthRejects \/ SynthResolves
    \/ SynthJsonRejects \/ SynthJsonResolves
    \/ PlayResolves \/ PlayRejects

SpecVoiceFair == SpecVoice /\ WF_vars(VoiceSettles)

\* the voice handlers with at most MaxTalks startVoice calls made, the user
\* having typed a draft into the message box or not
NextTalk ==
    \/ TypeInput /\ voice[1].pc = "idle" /\ messageInput' = <<"yo">>
    \/ StartVoice /\ voice[MaxTalks].pc = "idle"
    \/ StopVoiceIdle
    \/ VoiceSettles

SpecTalk == InitVoice /\ [][NextTalk]_vars

SpecTalkFair == SpecTalk /\ WF_vars(VoiceSettles)

InitPanel ==
    /\ PageStart /\ VoiceStart /\ WorkerStart(<<>>) /\ NotifyStart(<<Origin \o Root>>)
    /\ TickerStart /\ WisdomStart(1, "default", Null)
    /\ \E list \in StoredLists, loaded \in BOOLEAN : PanelStart(list, list, loaded)

\* the calls under way
Busy == { c \in PanelIds : panel[c].pc \notin {"idle", "done"} }

NextPanel ==
    \/ TypeTicker
    \/ OpenSettings /\ Cardinality(Busy) < MaxBusy
    \/ AddReturnsEmpty
    \/ AddStarts /\ Cardinality(Busy) < MaxBusy
    \/ RemoveStarts /\ Cardinality(Busy) < MaxBusy
    \/ MutationResolves
    \/ MutationRejects
    \/ LoadFetchRejects
    \/ LoadFetchResolves
    \/ LoadJsonRejects
    \/ LoadJsonResolves

SpecPanel == InitPanel /\ [][NextPanel]_vars

\* the settings panel with every request answered and every read bringing the
\* list, the calls overlapping as they may; both lists were loaded before
InitRace ==
    /\ PageStart /\ VoiceStart /\ WorkerStart(<<>>) /\ NotifyStart(<<Origin \o Root>>)
    /\ TickerStart /\ WisdomStart(1, "default", Null)
    /\ \E list \in StoredLists : PanelStart(list, list, TRUE)

NextRace ==
    \/ TypeTicker
    \/ OpenSettings
    \/ AddStarts
    \/ RemoveStarts
    \/ MutationResolves
    \/ LoadFetchResolves /\ \A c \in PanelIds : panel'[c].answer.status \in {0, 200}
    \/ LoadJsonResolves

SpecRace == InitRace /\ [][NextRace]_vars

InitTicker ==
    /\ PageStart /\ VoiceStart /\ WorkerStart(<<>>) /\ NotifyStart(<<Origin \o Root>>)
    /\ TickerStart /\ WisdomStart(1, "default", Null)
    /\ \E portfolio, watchlist \in StoredLists :
          PanelStart([i \in DOMAIN portfolio |-> ToUpperCase(portfolio[i])], watchlist, FALSE)

NextTicker ==
    \/ PageLoads
    \/ TimerFires
    \/ TickerListsReject
    \/ TickerListsResolve
    \/ TickerPortfolioJson
    \/ TickerWatchlistJson
    \/ QuotesSettle

SpecTicker == InitTicker /\ [][NextTicker]_vars

SpecRender == InitChat /\ [][AddMessageCalled]_vars

InitWisdom ==
    /\ PageStart /\ VoiceStart /\ WorkerStart(<<>>) /\ NotifyStart(<<Origin \o Root>>)
    /\ PanelStart(<<>>, <<>>, FALSE) /\ TickerStart
    /\ \E p \in {"default", "denied", "granted"},
          d \in {Null, Str(<<"Tue Nov 03 2026">>), Str(<<"Wed Nov 04 2026">>)} :
          WisdomStart(1, p, d)

NextWisdom ==
    \/ Tick
    \/ CheckMorningWisdom
    \/ WisdomFetchRejects
    \/ WisdomFetchResolves
    \/ WisdomJsonSettles

SpecWisdom == InitWisdom /\ [][NextWisdom]_vars

(***************************************************************************)
(* Service worker caches: properties                                       *)
(***************************************************************************)
CurrentEntries ==
    UNION { { cacheStorage[i].entries } : i \in { j \in DOMAIN cacheStorage : cacheStorage[j].name = CACHE_NAME } }

\* C4: on activation, each cache name that caches.keys() returned and that
\* differs from CACHE_NAME is deleted exactly once, no other name is deleted,
\* and the CACHE_NAME cache is never deleted: it is there, with the manifest's
\* assets, from the end of install on.
C4_StaleCachesDeletedOnce ==
    /\ deleteCalls[CACHE_NAME] = 0
    /\ activate.pc \in {"deleting", "activated"} =>
          \A n \in PriorNames :
              deleteCalls[n] = IF n \in Range(activate.names) /\ n # CACHE_NAME THEN 1 ELSE 0
    /\ activate.pc = "activated" =>
          \A n \in Range(activate.names) : n # CACHE_NAME => ~HasCache(cacheStorage, n)
    /\ installPc = "installed" =>
          /\ HasCache(cacheStorage, CACHE_NAME)
          /\ \A es \in CurrentEntries :
                \A i \in DOMAIN ASSETS_TO_CACHE : Get_(ASSETS_TO_CACHE[i]) \in DOMAIN es

\* activation is over, three caches were found, two of them deleted
C4_Witness ==
    /\ activate.pc = "activated"
    /\ Len(activate.names) = 3
    /\ deleteCalls["stockman-v0"] = 1
    /\ deleteCalls["other"] = 1
    /\ Len(cacheStorage) = 1

\* the request is one the listener must leave alone
NotToIntercept(req) == req.method # "GET" \/ Includes(req.url, ApiMarker)

\* C5: for a request that is not a GET or whose URL contains '/api/' the fetch
\* listener never responds, never reads the cache and never writes it, and the
\* cache holds no entry keyed by such a request.
C5_ApiAndNonGetUntouched ==
    /\ \A e \in FetchIds :
          (fetchEv[e].pc # "idle" /\ NotToIntercept(fetchEv[e].request))
             => fetchEv[e].pc = "passthrough" /\ fetchEv[e].result = NoResult
    /\ \A l \in cacheLog : ~NotToIntercept(l.request)
    /\ \A i \in DOMAIN cacheStorage :
          \A r \in DOMAIN cacheStorage[i].entries : ~NotToIntercept(r)

\* a GET of /api/chat and a POST were passed through, after the cache was written
C5_Witness ==
    /\ fetchEv[1].pc = "done" /\ cacheLog # {}
    /\ fetchEv[2].pc = "passthrough"
    /\ fetchEv[2].request = Get_(<<"/", "v2", "/", "api", "/", "quote">>)

\* the network fetch of event e succeeded
NetworkSucceeded(e) == fetchEv[e].pc \in {"open", "put", "done"} /\ fetchEv[e].net # NoResp

\* C6: when the network fetch of an intercepted GET succeeds, the page gets
\* that network response, and the put that follows stores it in the CACHE_NAME
\* cache under the request, in place of any entry the request had.
C6_NetworkFirstThenCached ==
    /\ [](\A e \in FetchIds : NetworkSucceeded(e) =>
             fetchEv[e].result = [kind |-> "response", via |-> "network", resp |-> fetchEv[e].net])
    /\ [][\A e \in FetchIds :
             (fetchEv[e].pc = "put" /\ fetchEv'[e].pc = "done") =>
                \E i \in DOMAIN cacheStorage' :
                    /\ cacheStorage'[i].name = CACHE_NAME
                    /\ fetchEv[e].request \in DOMAIN cacheStorage'[i].entries
                    /\ cacheStorage'[i].entries[fetchEv[e].request] = fetchEv[e].net]_vars

\* the root document, cached at install, was fetched at version 2 and the
\* entry now holds version 2
C6_Witness ==
    \E e \in FetchIds :
        /\ fetchEv[e].pc = "done"
        /\ fetchEv[e].request = Get_(Root)
        /\ fetchEv[e].net.ver = 2
        /\ fetchEv[e].result.resp.ver = 2
        /\ \E es \in CurrentEntries : es[Get_(Root)].ver = 2

\* the network fetch of event e failed
NetworkFailed(e) ==
    fetchEv[e].pc = "match" \/ (fetchEv[e].pc = "done" /\ fetchEv[e].net = NoResp)

\* C7: when the network fetch of an intercepted GET fails, the page gets the
\* cached response of the request when a cache holds one, and a failed fetch
\* (never a made-up response) when none does.
C7_CacheFallbackOrFailure ==
    /\ [](\A e \in FetchIds : (NetworkFailed(e) /\ fetchEv[e].pc = "done") =>
             \/ fetchEv[e].result.kind = "error"
             \/ fetchEv[e].result.kind = "response" /\ fetchEv[e].result.via = "cache")
    /\ [][\A e \in FetchIds :
             (fetchEv[e].pc = "match" /\ fetchEv'[e].pc = "done") =>
                LET holders == { i \in DOMAIN cacheStorage :
                                    fetchEv[e].request \in DOMAIN cacheStorage[i].entries }
                IN IF holders = {}
                     THEN fetchEv'[e].result.kind = "error"
                     ELSE /\ fetchEv'[e].result.kind = "response"
                          /\ \E i \in holders :
                                fetchEv'[e].result.resp = cacheStorage[i].entries[fetchEv[e].request]]_vars

\* offline: one request was answered from the cache, another failed
C7_Witness ==
    \E d, e \in FetchIds :
        /\ NetworkFailed(d) /\ fetchEv[d].pc = "done" /\ fetchEv[d].result.kind = "response"
        /\ NetworkFailed(e) /\ fetchEv[e].pc = "done" /\ fetchEv[e].result.kind = "error"

(***************************************************************************)
(* Notifications: properties                                               *)
(***************************************************************************)
\* the payload failed JSON parsing
Unparsable(payload) == payload.present /\ ~JsonParse(payload.text).parses

\* C8: every push shows one notification, and for a payload that fails JSON
\* parsing its body is the raw payload text while title, icon, badge and
\* deep-link data are the defaults.
C8_UnparsablePayloadIsBody ==
    /\ Len(shown) = pushes
    /\ \A i \in DOMAIN shown :
          Unparsable(shown[i].payload) =>
             /\ shown[i].body = Str(shown[i].payload.text)
             /\ shown[i].title = Str(<<"Stockman">>)
             /\ shown[i].icon = Str(<<"/", "icons", "/", "icon-192.png">>)
             /\ shown[i].badge = Str(<<"/", "icons", "/", "icon-72.png">>)
             /\ shown[i].data = Obj([url |-> Str(<<"/">>)])

\* a plain-text push and a truncated-JSON push have both been shown
C8_Witness ==
    /\ Len(shown) = 2
    /\ shown[1].payload.text = <<"AAPL", " ", "up", " ", "3%">>
    /\ shown[2].payload.text = <<"{", "\"title\"", ":">>
    /\ shown[2].body = Str(<<"{", "\"title\"", ":">>)

\* the focus and window-open operations of click c
Routed(c) == SelectSeq(click[c].log, LAMBDA o : o.op \in {"focus", "open"})

\* the deep link of notification n: its data's url when it has one, else root
DeepLink(n) ==
    IF shown[n].data.t = "obj" /\ "url" \in DOMAIN shown[n].data.f
         /\ shown[n].data.f["url"].t = "str" /\ shown[n].data.f["url"].v # <<>>
      THEN shown[n].data.f["url"].v
      ELSE <<"/">>

\* C9: every click closes the notification first; 'dismiss' neither focuses
\* nor opens; any other action does exactly one of the two: it focuses the
\* first window client whose URL contains the worker's origin when there is
\* one, and otherwise opens a window at the deep-link URL (root when the
\* notification has none).
C9_ClickRoutesOnce ==
    \A c \in ClickIds :
        click[c].pc # "idle" =>
           /\ click[c].log[1].op = "close"
           /\ shown[click[c].notification].closed
           /\ click[c].action = "dismiss" => click[c].pc = "done" /\ Routed(c) = <<>>
           /\ click[c].pc = "matchAll" => Routed(c) = <<>>
           /\ (click[c].action # "dismiss" /\ click[c].pc = "done") =>
                 LET seen == click[c].seen
                     hits == { i \in DOMAIN seen : Includes(seen[i].url, Origin) }
                 IN /\ Len(Routed(c)) = 1
                    /\ IF hits # {}
                         THEN /\ Routed(c)[1].op = "focus"
                              /\ Routed(c)[1].client \in hits
                              /\ \A j \in hits : Routed(c)[1].client <= j
                         ELSE /\ Routed(c)[1].op = "open"
                              /\ Routed(c)[1].url = DeepLink(click[c].notification)

\* one click opened the deep link /p because only an about:blank client
\* was there, and a later click focused a client that was not the first listed
C9_Witness ==
    \E b, c \in ClickIds :
        /\ click[b].pc = "done" /\ Routed(b) = <<Op("open", 0, <<"/", "p">>)>>
        /\ click[c].pc = "done" /\ Len(Routed(c)) = 1 /\ Routed(c)[1].op = "focus"
        /\ Routed(c)[1].client > 1

(***************************************************************************)
(* Voice: properties                                                       *)
(***************************************************************************)
Recording == { v \in VoiceIds : voice[v].recorder = "recording" }
HeldStreams == { v \in VoiceIds : voice[v].stream = "live" }

\* C10: after any sequence of startVoice and stopVoice calls at most one
\* recorder is recording and at most one microphone stream is held, and
\* stopVoice changes state only when a recorder is recording.
C10_OneLiveSession ==
    /\ [](Cardinality(Recording) <= 1 /\ Cardinality(HeldStreams) <= 1)
    /\ [][(isRecording /\ ~isRecording') => Recording # {}]_vars

\* every session whose recorder was stopped gets its tracks stopped
StoppedIsReleased ==
    \A v \in VoiceIds : (voice[v].recorder = "inactive") ~> (voice[v].stream = "ended")

\* C11: every recording session that was started and then stopped has its
\* microphone tracks released in the end, whatever transcription, the chat
\* request and synthesis do; no acquired microphone stream stays held forever.
C11_NoStreamHeldForever ==
    /\ StoppedIsReleased
    /\ \A v \in VoiceIds : (voice[v].stream = "live") ~> (voice[v].stream = "ended")

\* the entries of a request log that one call made
IssuedBy(log, by) == Cardinality({ i \in DOMAIN log : log[i].by = by })

\* the assistant message a processVoice call appends
Says(v, text) == Bubble("assistant", text, <<"voice", v>>)

\* session v is over, processVoice having ended that way
Ended(v, hows) == voice[v].pc = "done" /\ voice[v].how \in hows

\* C12: in 'chat' mode, when the transcription fetch rejects or answers with a
\* status that is not ok, that step appends the chat-mode apology as an
\* assistant message, hides the typing indicator and ends processVoice; the
\* call has then appended one assistant message, no user message, and has
\* issued no chat request and no synthesis request.
C12_TranscribeFailureApologises ==
    /\ [](\A v \in VoiceIds :
             (voice[v].mode = "chat" /\ Ended(v, {"transcribeRejected", "transcribeNotOk"})) =>
                 /\ CountBy("assistant", <<"voice", v>>) = 1
                 /\ CountBy("user", <<"voice", v>>) = 0
                 /\ IssuedBy(chatRequests, <<"voice", v>>) = 0
                 /\ IssuedBy(synthRequests, <<"voice", v>>) = 0)
    /\ [][\A v \in VoiceIds :
             (/\ voice[v].pc = "transcribe" /\ voice[v].mode = "chat"
              /\ voice'[v] # voice[v]
              /\ ~Ok(voice'[v].response.status))
             => /\ voice'[v].pc = "done"
                /\ voice'[v].how \in {"transcribeRejected", "transcribeNotOk"}
                /\ messages' = Append(messages, Says(v, VoiceApologyChat))
                /\ typingHidden' = TRUE
                /\ chatRequests' = chatRequests
                /\ synthRequests' = synthRequests]_vars

\* a chat-mode session ended on a 500 from the transcription service, its
\* apology the only message
C12_Witness ==
    \E v \in VoiceIds :
        /\ voice[v].mode = "chat" /\ Ended(v, {"transcribeNotOk"})
        /\ voice[v].response.status = 500
        /\ messages = <<Says(v, VoiceApologyChat)>>

\* the transcription body is an object whose text is missing, empty or blanks
NoWords(body) ==
    /\ body.parses /\ body.json.t = "obj"
    /\ \/ "text" \notin DOMAIN body.json.f
       \/ body.json.f.text.t = "str" /\ \A i \in DOMAIN body.json.f.text.v : body.json.f.text.v[i] = " "

\* the transcription body is an object whose text has a word in it
HasWords(body) ==
    /\ body.parses /\ body.json.t = "obj"
    /\ "text" \in DOMAIN body.json.f
    /\ body.json.f.text.t = "str" /\ \E i \in DOMAIN body.json.f.text.v : body.json.f.text.v[i] # " "

\* C13: in either mode, when the transcription succeeded with a text that is
\* missing, empty or only blanks, that step appends the "didn't catch that"
\* assistant message and ends processVoice, leaving the message input alone;
\* the call has then appended that one message, no user message, and has
\* issued no chat request and no synthesis request.
C13_BlankTranscriptOnlySaysSo ==
    /\ [](\A v \in VoiceIds :
             Ended(v, {"blank"}) =>
                 /\ CountBy("assistant", <<"voice", v>>) = 1
                 /\ CountBy("user", <<"voice", v>>) = 0
                 /\ IssuedBy(chatRequests, <<"voice", v>>) = 0
                 /\ IssuedBy(synthRequests, <<"voice", v>>) = 0)
    /\ [][\A v \in VoiceIds :
             (/\ voice[v].pc = "transcribeJson"
              /\ voice'[v] # voice[v]
              /\ NoWords(voice[v].response.body))
             => /\ voice'[v].pc = "done" /\ voice'[v].how = "blank"
                /\ messages' = Append(messages, Says(v, DidntCatch))
                /\ messageInput' = messageInput
                /\ chatRequests' = chatRequests
                /\ synthRequests' = synthRequests
                /\ spoken' = spoken]_vars

\* a text-mode session got a text of one blank and ended on the "didn't catch
\* that" message, the user's draft still in the message box
C13_Witness ==
    \E v \in VoiceIds :
        /\ voice[v].mode = "text" /\ Ended(v, {"blank"})
        /\ voice[v].response.body.json = Obj([text |-> Str(<<" ">>)])
        /\ messages = <<Says(v, DidntCatch)>>
        /\ messageInput = <<"yo">>

\* C14: in 'text' mode, when the transcription succeeded with a text that has
\* a word in it, that step sets the message input to the text as it came and
\* ends processVoice with the message list as it was; the call has appended no
\* message and has issued no chat request and no synthesis request.
C14_DictationFillsInputOnly ==
    /\ [](\A v \in VoiceIds :
             Ended(v, {"dictated"}) =>
                 /\ CountBy("assistant", <<"voice", v>>) = 0
                 /\ CountBy("user", <<"voice", v>>) = 0
                 /\ IssuedBy(chatRequests, <<"voice", v>>) = 0
                 /\ IssuedBy(synthRequests, <<"voice", v>>) = 0)
    /\ [][\A v \in VoiceIds :
             (/\ voice[v].pc = "transcribeJson" /\ voice[v].mode = "text"
              /\ voice'[v] # voice[v]
              /\ HasWords(voice[v].response.body))
             => /\ voice'[v].pc = "done" /\ voice'[v].how = "dictated"
                /\ messageInput' = voice[v].response.body.json.f.text.v
                /\ messages' = messages
                /\ chatRequests' = chatRequests
                /\ synthRequests' = synthRequests
                /\ spoken' = spoken]_vars

\* a text-mode session put the transcript, leading blank and all, over the
\* user's draft and showed no message
C14_Witness ==
    \E v \in VoiceIds :
        /\ voice[v].mode = "text" /\ Ended(v, {"dictated"})
        /\ messageInput = <<" ", "sell", " ", "TSLA">>
        /\ messages = <<>>
        /\ chatRequests = <<>>

\* the messages one call appended, in the order of the list
SaidBy(by) == SelectSeq(messages, LAMBDA msg : msg.by = by)

\* the chat body is an object whose reply is a string
HasReply(body) ==
    /\ body.parses /\ body.json.t = "obj"
    /\ "reply" \in DOMAIN body.json.f /\ body.json.f.reply.t = "str"

\* C15: in 'chat' mode with a transcript that has a word in it, the step that
\* reads the transcript appends it as a user message and issues one chat
\* request with is_voice true; the step that reads a reply appends it as an
\* assistant message and issues the synthesis request for it; a chat request
\* that fails or brings no reply ends the call with one apology and no
\* synthesis request.  So the messages of the call are the user message then
\* one assistant message, a chat request is there from the user message on,
\* and a synthesis request only after the reply is shown.
C15_VoiceChatInOrder ==
    /\ [](\A v \in VoiceIds :
             LET by == <<"voice", v>> IN
             /\ IssuedBy(chatRequests, by) <= 1 /\ IssuedBy(synthRequests, by) <= 1
             /\ \A i \in DOMAIN chatRequests : chatRequests[i].by = by =>
                    /\ chatRequests[i].is_voice = TRUE
                    /\ SaidBy(by) # <<>>
                    /\ SaidBy(by)[1] = Bubble("user", chatRequests[i].message, by)
             /\ voice[v].pc \in {"chat", "chatJson"} =>
                    /\ Len(SaidBy(by)) = 1
                    /\ IssuedBy(chatRequests, by) = 1 /\ IssuedBy(synthRequests, by) = 0
             /\ \A i \in DOMAIN synthRequests : synthRequests[i].by = by =>
                    /\ IssuedBy(chatRequests, by) = 1
                    /\ Len(SaidBy(by)) = 2
                    /\ SaidBy(by)[2] = Says(v, synthRequests[i].text)
             /\ (voice[v].pc = "done" /\ IssuedBy(chatRequests, by) = 1
                    /\ IssuedBy(synthRequests, by) = 0) =>
                    /\ Len(SaidBy(by)) = 2
                    /\ SaidBy(by)[2] = Says(v, VoiceApologyChat))
    /\ [][\A v \in VoiceIds :
             LET by == <<"voice", v>>
                 body == voice[v].response.body
                 next == voice'[v].response.body
             IN
             /\ (/\ voice[v].pc = "transcribeJson" /\ voice[v].mode = "chat"
                 /\ voice'[v] # voice[v] /\ HasWords(body))
                => /\ voice'[v].pc = "chat"
                   /\ messages' = Append(messages, Bubble("user", body.json.f.text.v, by))
                   /\ chatRequests' = Append(chatRequests, [message |-> body.json.f.text.v,
                                                            is_voice |-> TRUE, by |-> by])
                   /\ synthRequests' = synthRequests
             /\ (voice[v].pc = "chatJson" /\ voice'[v] # voice[v] /\ HasReply(body))
                => /\ voice'[v].pc = "synth"
                   /\ messages' = Append(messages, Says(v, body.json.f.reply.v))
                   /\ synthRequests' = Append(synthRequests, [text |-> body.json.f.reply.v, by |-> by])
                   /\ chatRequests' = chatRequests
             /\ (\/ voice[v].pc = "chat" /\ voice'[v].pc = "done"
                 \/ voice[v].pc = "chatJson" /\ voice'[v] # voice[v] /\ ~HasReply(body))
                => /\ voice'[v].pc = "done"
                   /\ messages' = Append(messages, Says(v, VoiceApologyChat))
                   /\ synthRequests' = synthRequests
                   /\ chatRequests' = chatRequests]_vars

\* a chat-mode session showed the transcript and the reply and waits for the
\* synthesis of the reply
C15_Witness ==
    \E v \in VoiceIds :
        /\ voice[v].pc = "synth"
        /\ messages = << Bubble("user", <<" ", "sell", " ", "TSLA">>, <<"voice", v>>),
                         Says(v, <<"Buy", " ", "low">>) >>
        /\ chatRequests = << [message |-> <<" ", "sell", " ", "TSLA">>, is_voice |-> TRUE,
                              by |-> <<"voice", v>>] >>
        /\ synthRequests = << [text |-> <<"Buy", " ", "low">>, by |-> <<"voice", v>>] >>

\* what a speakResponse call may add to the speech heard
Speech(v, how) == [how |-> how, text |-> voice[v].reply, by |-> <<"voice", v>>]

\* the synthesis body is an object whose audio is a non-empty string
HasAudio(body) ==
    /\ body.parses /\ body.json.t = "obj"
    /\ "audio" \in DOMAIN body.json.f
    /\ body.json.f.audio.t = "str" /\ body.json.f.audio.v # <<>>

\* the ways a speakResponse call ends in useBrowserSpeech
FellBack == {"synthRejected", "synthNotOk", "synthJsonRejected", "threw", "noAudio", "playRejected"}

\* C16: a speakResponse call goes on to play the remote audio only while the
\* remote path succeeds (the fetch resolves with an ok status, the body has
\* audio), and when playback resolves it ends with the remote audio played; at
\* a rejected fetch, a status that is not ok, a body without audio or a failed
\* playback it ends in useBrowserSpeech, which speaks the text where the
\* browser can.  A call adds at most one speech, remote or on-device, and never
\* throws: processVoice ends after it with the reply as the call's one
\* assistant message.
C16_FallbackIffRemoteFails ==
    /\ [](\A v \in VoiceIds :
             /\ IssuedBy(spoken, <<"voice", v>>) <= 1
             /\ IssuedBy(spoken, <<"voice", v>>) = 1 => voice[v].pc = "done"
             /\ IssuedBy(synthRequests, <<"voice", v>>) = 1 =>
                    /\ CountBy("assistant", <<"voice", v>>) = 1
                    /\ voice[v].pc = "done" => voice[v].how \in FellBack \cup {"played"})
    /\ [][\A v \in VoiceIds :
             LET body == voice[v].response.body IN
             (voice[v].pc \in {"synth", "synthJson", "play"} /\ voice'[v] # voice[v]) =>
                /\ messages' = messages
                /\ \/ /\ voice'[v].pc = "synthJson" /\ voice[v].pc = "synth"
                      /\ voice'[v].response.status \in 200 .. 299
                      /\ spoken' = spoken
                   \/ /\ voice'[v].pc = "play" /\ voice[v].pc = "synthJson"
                      /\ HasAudio(body)
                      /\ spoken' = spoken
                   \/ /\ voice'[v].pc = "done" /\ voice'[v].how = "played"
                      /\ voice[v].pc = "play"
                      /\ spoken' = Append(spoken, Speech(v, "remote"))
                   \/ /\ voice'[v].pc = "done" /\ voice'[v].how \in FellBack
                      /\ \/ /\ voice[v].pc = "synth"
                            /\ \/ voice'[v].how = "synthRejected"
                               \/ voice'[v].response.status \notin 200 .. 299
                         \/ voice[v].pc = "synthJson" /\ ~HasAudio(body)
                         \/ voice[v].pc = "play"
                      /\ spoken' \in {spoken, Append(spoken, Speech(v, "browser"))}]_vars

\* the remote audio came but its playback failed, and the browser spoke the
\* reply instead
C16_Witness ==
    \E v \in VoiceIds :
        /\ Ended(v, {"playRejected"})
        /\ HasAudio(voice[v].response.body)
        /\ spoken = <<Speech(v, "browser")>>

(***************************************************************************)
(* Settings panel: properties                                              *)
(***************************************************************************)
\* call c, a read of the list `kind` that the backend answered with the list,
\* completes in this step
ReadCompletes(c, kind) ==
    /\ panel[c].pc = "json" /\ panel'[c].pc = "done"
    /\ panel[c].kind = kind
    /\ panel[c].answer.status \in 200 .. 299
    /\ panel[c].answer.body.parses

\* the tickers of the list that call c's read brought, in the response's order
Brought(c) ==
    LET list == Get(panel[c].answer.body.json, panel[c].kind).v IN
    [i \in DOMAIN list |-> Get(list[i], "ticker").v]

\* C17: the rendered portfolio (and watchlist) list changes only in a step in
\* which a read of that list completes successfully, and it then shows that
\* read's response: its tickers in order, or the empty-state card for an empty
\* list.  Every other step (a read that fails, an add or a remove that fails or
\* succeeds, typing) leaves the rendered list as it is.
C17_RenderedFollowsReads ==
    [][\A kind \in Kinds :
          /\ \A c \in PanelIds :
                ReadCompletes(c, kind) =>
                    rendered'[kind] = [emptyState |-> Brought(c) = <<>>, items |-> Brought(c)]
          /\ (\A c \in PanelIds : ~ReadCompletes(c, kind)) => rendered'[kind] = rendered[kind]]_vars

\* a list that was rendered as empty shows TSLA after an add and its re-fetch
C17_Witness ==
    \E kind \in Kinds :
        /\ stored[kind] = << <<"TSLA">> >>
        /\ rendered[kind] = [emptyState |-> FALSE, items |-> << <<"TSLA">> >>]
        /\ \E c \in PanelIds : panel[c].pc = "done"

\* call c was a removal of a ticker the backend did not hold, and it is over
RemovedAbsent(c) == panel[c].pc = "done" /\ panel[c].op = "remove" /\ panel[c].absent

\* C18 as stated: after a removal of a ticker that is not in the list and its
\* re-fetch are over, the rendered list equals the rendered list before the
\* call.
C18_RemoveAbsentKeepsRendered ==
    \A c \in PanelIds :
        (RemovedAbsent(c) /\ \A u \in PanelIds : u > c => panel[u].pc = "idle") =>
            rendered[panel[c].kind] = panel[c].before

\* C18, amended: if the rendered list showed what the backend held when the
\* removal of an absent ticker was called, no other call was under way then and
\* none was made before the removal and its re-fetch were over, the rendered
\* list equals the rendered list before the call; this whether the DELETE
\* succeeded, returned an error status or rejected, and whatever the re-fetch
\* brought.
C18_RemoveAbsentKeepsSettledRendered ==
    \A c \in PanelIds :
        (RemovedAbsent(c) /\ panel[c].settled /\ \A u \in PanelIds : u > c => panel[u].pc = "idle") =>
            rendered[panel[c].kind] = panel[c].before

\* TSLA, which the backend did not hold, was removed from a list showing aapl
C18_Witness ==
    \E c \in PanelIds :
        /\ RemovedAbsent(c) /\ panel[c].settled
        /\ \A u \in PanelIds : u > c => panel[u].pc = "idle"
        /\ panel[c].before.items = << <<"aapl">> >>
        /\ rendered[panel[c].kind] = panel[c].before

(***************************************************************************)
(* Ticker: properties                                                      *)
(***************************************************************************)
\* C19: in each ticker refresh, no two quote fetches are issued for symbols
\* that are equal ignoring case: the symbols put together from the defaults,
\* the portfolio and the watchlist differ pairwise once upper-cased.
C19_SymbolsUniqueIgnoringCase ==
    \A r \in RefreshIds :
        LET tickers == refresh[r].tickers IN
        \A i, j \in DOMAIN tickers :
            i # j => ToUpperCase(tickers[i]) # ToUpperCase(tickers[j])

\* C20: at any time at most one periodic refresh timer is armed, however many
\* refreshes have already happened.
C20_AtMostOneTimer == timers <= 1

(***************************************************************************)
(* Morning wisdom: properties                                              *)
(***************************************************************************)
\* the requests call w issued, and the notifications it showed
AskedBy(w) == { i \in DOMAIN wisdomRequests : wisdomRequests[i] = w }
NoticedBy(w) == { i \in DOMAIN notices : notices[i].by = w }

\* call w was made at an hour in [7, 9), with permission granted and no
\* record for its date
Due(w) ==
    /\ wisdom[w].hour \in 7 .. 8
    /\ wisdom[w].lastShown # Str(wisdom[w].today)
    /\ wisdom[w].permission = "granted"

\* call w got a response with a non-empty wisdom field
GotWisdom(w) ==
    LET body == wisdom[w].response.body IN
    /\ wisdom[w].pc = "done" /\ wisdom[w].response.status = 200
    /\ body.parses /\ body.json.t = "obj"
    /\ Get(body.json, "wisdom").t = "str" /\ Get(body.json, "wisdom").v # <<>>

\* C21: a checkMorningWisdom call made at an hour below 7 or at least 9, with
\* today's date already recorded, or without notification permission, issues
\* no fetch and shows nothing; any other call fetches once, and shows exactly
\* one notification and records its date when the response has a non-empty
\* wisdom field; when the fetch fails or wisdom is empty it shows nothing and
\* records nothing.
C21_MorningWisdomGate ==
    /\ [](\A w \in WisdomIds :
            wisdom[w].pc # "idle" =>
                IF Due(w)
                  THEN /\ Cardinality(AskedBy(w)) = 1
                       /\ Cardinality(NoticedBy(w)) = IF GotWisdom(w) THEN 1 ELSE 0
                  ELSE /\ wisdom[w].pc = "done"
                       /\ AskedBy(w) = {} /\ NoticedBy(w) = {})
    /\ [][/\ wisdomDate' # wisdomDate => Len(notices') = Len(notices) + 1
          /\ notices' # notices =>
                /\ Len(notices') = Len(notices) + 1
                /\ SubSeq(notices', 1, Len(notices)) = notices
                /\ wisdomDate' = Str(wisdom[notices'[Len(notices')].by].today)]_vars

\* a call at hour 7 with permission granted showed the wisdom and recorded
\* the date, which a record of the day before did not prevent
C21_Witness ==
    \E w \in WisdomIds :
        /\ wisdom[w].how = "shown" /\ wisdom[w].hour = 7
        /\ wisdom[w].lastShown = Str(<<"Tue Nov 03 2026">>)
        /\ Len(notices) = 1 /\ notices[1].by = w
        /\ wisdomDate = Str(<<"Wed Nov 04 2026">>)

\* C22: at most one morning-wisdom notification is shown per calendar date,
\* for any number and interleaving of checkMorningWisdom calls that share the
\* stored date.
C22_OneNoticePerDate ==
    \A i, j \in DOMAIN notices :
        i # j => wisdom[notices[i].by].today # wisdom[notices[j].by].today

(***************************************************************************)
(* Messages: properties                                                    *)
(***************************************************************************)
\* no '<', '>' or '&' of the input is left as it was: the only ones in the
\* markup are those of tags and of the entities
Escaped(html) ==
    \A i \in DOMAIN html :
        /\ html[i] \notin {"<", ">"}
        /\ html[i] = "&" => i < Len(html) /\ html[i + 1] \in {"amp;", "lt;", "gt;"}

\* C23: the assistant message "**Buy** AAPL now" is rendered as
\* <strong>Buy</strong> AAPL now inside a paragraph element, the same text from
\* the user as the literal text inside a paragraph, and in both roles every
\* '<', '>' and '&' of the input is escaped.
C23_BuyNowRendering ==
    \A i \in DOMAIN messages :
        /\ Escaped(messages[i].html)
        /\ messages[i].content = BuyNow =>
              messages[i].html =
                 IF messages[i].role = "assistant"
                   THEN <<"<p>", "<strong>", "Buy", "</strong>", " ", "AAPL", " ", "now", "</p>">>
                   ELSE <<"<p>">> \o BuyNow \o <<"</p>">>

\* C24: the step of sendMessage that issues the chat request is the step that
\* read the input: it sends the trimmed input, appends it as the user's
\* message and leaves the input empty; the input gets a text again only by the
\* user's typing.  So a sendMessage call made while an earlier request is
\* pending, with nothing typed since, finds the input empty and submits
\* nothing.
C24_InputClearedWithRequest ==
    [][/\ chatRequests' # chatRequests =>
            LET request == chatRequests'[Len(chatRequests')] IN
            /\ chatRequests' = Append(chatRequests, request)
            /\ request.message = Trim(messageInput) /\ request.message # <<>>
            /\ messages' = Append(messages, Bubble("user", request.message, request.by))
            /\ messageInput' = <<>>
       /\ (messageInput' # messageInput /\ messageInput' # <<>>) =>
            /\ chatRequests' = chatRequests
            /\ messages' = messages
            /\ send' = send
       /\ \A t \in SendIds :
            (send[t].pc = "idle" /\ send'[t].pc # "idle" /\ Trim(messageInput) = <<>>) =>
                /\ send'[t].pc = "done"
                /\ chatRequests' = chatRequests /\ messages' = messages]_vars

\* a second sendMessage call, made while the first request was pending and
\* nothing was typed, returned without a request
C24_Witness ==
    /\ SendPending(1)
    /\ send[2].pc = "done" /\ send[2].how = "empty"
    /\ messageInput = <<>>
    /\ Len(chatRequests) = 1 /\ CountBy("user", <<"send", 1>>) = 1 /\ Len(messages) = 1

\* C25: at most one chat exchange is in flight at a time: no chat request is
\* issued while an earlier one is unresolved.
C25_OneChatInFlight == Cardinality({ t \in SendIds : SendPending(t) }) <= 1

\* C28: the typing indicator is visible whenever a request issued by
\* sendMessage is unresolved, and hidden once none is outstanding.
C28_TypingBracketsRequests == typingHidden <=> (\A t \in SendIds : ~SendPending(t))

(***************************************************************************)
(* Service worker: activation order                                        *)
(***************************************************************************)
\* C27: the worker takes control of the open clients only after every stale
\* cache has been deleted: no client is claimed while a cache with a name
\* other than CACHE_NAME exists.
C27_ClaimAfterCleanup ==
    claimed => \A i \in DOMAIN cacheStorage : cacheStorage[i].name = CACHE_NAME

(***************************************************************************)
(* Settings panel: order of a mutation, and races                          *)
(***************************************************************************)
\* C26: every add and remove goes: input cleared, then the network call
\* issued, then the list fetched again; the step that issues an add's POST
\* leaves the ticker box empty, and the call goes on to the re-fetch however
\* the POST or DELETE ended.
C26_ClearCallRefetch ==
    [][\A c \in PanelIds :
          /\ (panel[c].pc = "idle" /\ panel'[c].pc = "mutate" /\ panel'[c].op = "add") =>
                tickerField'[panel'[c].kind] = <<>>
          /\ (panel[c].pc = "mutate" /\ panel'[c].pc # "mutate") => panel'[c].pc = "fetch"]_vars

\* C30: once every outstanding request of the settings panel has completed,
\* each rendered list equals the list the server stores.
C30_RenderedIsStoredWhenQuiet ==
    (\A c \in PanelIds : panel[c].pc \in {"idle", "done"}) =>
        \A kind \in Kinds :
            rendered[kind] = [emptyState |-> stored[kind] = <<>>, items |-> stored[kind]]

(***************************************************************************)
(* Voice: the recording of a session                                       *)
(***************************************************************************)
\* C29: the audio posted for transcription when a session stops is exactly
\* that session's recording, no chunk of another session included and none
\* lost; and every recorder that is recording is the one a stopVoice call
\* would stop.
C29_SessionOwnsItsChunks ==
    /\ \A i \in DOMAIN transcribeRequests :
          transcribeRequests[i].audio = << [recorder |-> transcribeRequests[i].by[2]] >>
    /\ \A v \in VoiceIds :
          voice[v].recorder = "recording" => (mediaRecorder = v /\ isRecording)

====
